---- MODULE Spec2Model ----
(***************************************************************************)
(* The reactive core of shablon (src/src/state.js): watch(), store(), the  *)
(* proxy traps, the flush microtask and the debounced removal timer.       *)
(*                                                                         *)
(* Every handler runs to completion (JavaScript's single thread), so each  *)
(* action is one whole handler: a top-level watch(), a top-level write or   *)
(* unwatch(), the flush microtask, the removal timer.  Handlers are        *)
(* computed by operators over a record m of the whole program state.       *)
(*                                                                         *)
(* Strings that the code concatenates or compares by prefix (property keys *)
(* and dependency paths) are sequences of one-character strings.           *)
(***************************************************************************)
EXTENDS Integers, Sequences, FiniteSets, TLC

VARIABLES
    objs,            \* heap of containers; objs[o] is the raw object o and its symbol fields
    pathWatcherIds,  \* per store (root object id): Map path -> subscriber Set (an index of subsSets)
    subsSets,        \* heap of the subscriber Sets (insertion-ordered, no duplicates)
    wobj,            \* heap of the watcher objects, indexed by watcher id
    allWatchers,     \* keys of the allWatchers Map
    activeWatcher,   \* id of the active watcher, 0 for undefined/null
    flushQueue,      \* the flushQueue Set in insertion order
    toRemove,        \* the toRemove array
    cleanTimeoutId,  \* TRUE while the removal timer is armed
    clock,           \* ms since the removal timer was armed (timer) and since the last unwatch (idle)
    microtasks,      \* number of flush microtasks queued and not yet run
    uvars,           \* variables of the user program (watcher handles, observed values)
    log,             \* what the last handler did: runs of watchers, calls of getters
    lastOp,          \* the last handler and the state it started from
    router,          \* router.js: window.location.hash, hashchange events, prevDestroy, navigations
    dom              \* router.js: the elements made by t.[tag], their children and lifecycle flags

vars == << objs, pathWatcherIds, subsSets, wobj, allWatchers, activeWatcher,
           flushQueue, toRemove, cleanTimeoutId, clock, microtasks, uvars, log, lastOp,
           router, dom >>

-----------------------------------------------------------------------------
(* Bounds of the model *)

MaxWatchers == 4   \* watchers created in one behaviour
MaxObjs == 5       \* containers allocated in one behaviour
MaxMicro == 2      \* flush microtasks queued at one time
MaxNum == 2        \* numbers written by the user program are 0..MaxNum

(* Program constants *)

RunCeiling == 500  \* calls[runId] > 500
CleanDelay == 50   \* setTimeout(..., 50)
pathSeparator == "/"

-----------------------------------------------------------------------------
(* Strings *)

Ka == <<"a">>
Kb == <<"b">>
Kc == <<"c">>
Kn == <<"n">>
Kab == <<"a", "b">>
Kval == <<"v", "a", "l">>
KisValid == <<"i", "s", "V", "a", "l", "i", "d">>
Ksimple == <<"s", "i", "m", "p", "l", "e">>
Kcount == <<"c", "o", "u", "n", "t">>
Klength == <<"l", "e", "n", "g", "t", "h">>
Digits == <<"0", "1", "2", "3", "4", "5", "6", "7", "8", "9">>

\* String(i) for a small array index
IndexKey(i) == << Digits[i + 1] >>

IsIndexKey(k) == Len(k) = 1 /\ \E i \in 1..10 : Digits[i] = k[1]

IndexOf(k) == (CHOOSE i \in 1..10 : Digits[i] = k[1]) - 1

\* a.startsWith(b)
StartsWith(a, b) == Len(a) >= Len(b) /\ SubSeq(a, 1, Len(b)) = b

-----------------------------------------------------------------------------
(* JavaScript values.  v is a number for "num", the number a decimal string *)
(* spells for "str", 0/1 for "bool", the object id for "obj" (the raw       *)
(* object) and "proxy" (the Proxy created for it).                          *)

Undef == [t |-> "undef", v |-> 0]
Num(n) == [t |-> "num", v |-> n]
Str(n) == [t |-> "str", v |-> n]
Bool(b) == [t |-> "bool", v |-> IF b THEN 1 ELSE 0]
Obj(o) == [t |-> "obj", v |-> o]
Proxy(o) == [t |-> "proxy", v |-> o]
\* a function, and an object that is not plain (a Date, a Set, a Map, a
\* WeakRef, an instance of a class): its constructor is not Object or Array
Func(n) == [t |-> "func", v |-> n]
Opaque(n) == [t |-> "opaque", v |-> n]

IsRef(x) == x.t \in {"obj", "proxy"}

\* ToBoolean
Truthy(x) ==
    CASE x.t = "undef" -> FALSE
      [] x.t = "num" -> x.v # 0
      [] x.t = "str" -> TRUE      \* a decimal string is never empty
      [] x.t = "bool" -> x.v = 1
      [] OTHER -> TRUE

\* x > n for a number n: ToNumber(x) > n; undefined is NaN, an object is NaN
GreaterThan(x, n) == x.t \in {"num", "str", "bool"} /\ x.v > n

\* The abstract equality x == y of JavaScript on these values
LooseEq(x, y) ==
    CASE x.t = "undef" \/ y.t = "undef" -> x.t = y.t
      [] IsRef(x) /\ IsRef(y) -> x = y
      [] IsRef(x) \/ IsRef(y) -> FALSE   \* "[object Object]" is no decimal string
      [] OTHER -> x.v = y.v              \* ToNumber on both sides

-----------------------------------------------------------------------------
(* Maps with a growing key set *)

EmptyMap == [k \in {} |-> 0]

Put(f, k, x) == [y \in (DOMAIN f) \cup {k} |-> IF y = k THEN x ELSE f[y]]

Drop(f, ks) == [y \in (DOMAIN f) \ ks |-> f[y]]

SeqToSet(s) == { s[i] : i \in DOMAIN s }

\* Set.prototype.delete on an insertion-ordered Set
SeqDelete(s, x) == SelectSeq(s, LAMBDA y : y # x)

\* Set.prototype.add on an insertion-ordered Set
SeqAdd(s, x) == IF x \in SeqToSet(s) THEN s ELSE Append(s, x)

IndexIn(s, x) == CHOOSE i \in DOMAIN s : s[i] = x

-----------------------------------------------------------------------------
(* The heap *)

NoParent == << >>

\* a plain object or array as JSON.parse / a literal makes it
NewObj(fields, isArr) ==
    [f |-> fields, parent |-> NoParent, detached |-> FALSE, skip |-> FALSE,
     arr |-> isArr, store |-> 0, getters |-> EmptyMap, getW |-> EmptyMap]

\* obj[prop] on the raw object; object 0 is the literal {} of line 324
RawGet(m, o, prop) ==
    IF o # 0 /\ prop \in DOMAIN m.objs[o].f THEN m.objs[o].f[prop] ELSE Undef

HasOwn(m, o, prop) == o # 0 /\ prop \in DOMAIN m.objs[o].f

\* obj[prop] = value on the raw object, with the length bookkeeping of arrays
RawSet(m, o, prop, value) ==
    LET ob == m.objs[o]
        len == IF Klength \in DOMAIN ob.f THEN ob.f[Klength].v ELSE 0
        f1 == IF ob.arr /\ prop = Klength
              THEN Put(Drop(ob.f, { IndexKey(i) : i \in (IF value.v < 0 THEN 0 ELSE value.v)..9 }),
                       Klength, value)
              ELSE IF ob.arr /\ IsIndexKey(prop) /\ IndexOf(prop) >= len
              THEN Put(Put(ob.f, prop, value), Klength, Num(IndexOf(prop) + 1))
              ELSE Put(ob.f, prop, value)
    IN [m EXCEPT !.objs[o].f = f1]

\* an exception is propagating: the rest of every enclosing function is skipped
Throw(m) == [m EXCEPT !.thrown = TRUE]

\* nothing more is evaluated: an exception propagates or a bound was exceeded
Halted(m) == m.overflow \/ m.thrown

\* allocation of a fresh raw object; sets overflow beyond the bound
Alloc(m, ob) ==
    IF Len(m.objs) >= MaxObjs
    THEN [m |-> [m EXCEPT !.overflow = TRUE], id |-> 0]
    ELSE [m |-> [m EXCEPT !.objs = Append(@, ob)], id |-> Len(m.objs) + 1]

\* obj?.[parentSym] of a value (a symbol read goes through the Proxy to the raw object)
ParentOfVal(m, x) == IF IsRef(x) /\ x.v # 0 THEN m.objs[x.v].parent ELSE NoParent

-----------------------------------------------------------------------------
(* getPath *)

RECURSIVE PathUp(_, _, _)
PathUp(m, parentData, currentPath) ==
    IF parentData = NoParent THEN currentPath
    ELSE PathUp(m, m.objs[parentData[1]].parent,
                parentData[2] \o << pathSeparator >> \o currentPath)

GetPath(m, o, prop) ==
    PathUp(m, IF o = 0 THEN NoParent ELSE m.objs[o].parent, prop)

-----------------------------------------------------------------------------
(* callWatchers: the part that runs inside the write *)

\* flushQueue.delete(id) while the flush loop may be iterating the Set:
\* m.it entries of the Set have been visited
QueueDelete(m, id) ==
    IF id \notin SeqToSet(m.flushQueue) THEN m
    ELSE LET j == IndexIn(m.flushQueue, id)
         IN [m EXCEPT !.flushQueue = SeqDelete(@, id),
                      !.it = IF j <= @ THEN @ - 1 ELSE @]

\* a faulty variant: the pending set is a list, an id is pushed once per invalidation
EnqueuePush(m, id) ==
    [m EXCEPT !.flushQueue = Append(@, id),
              !.queued = Append(@, id),
              !.microtasks = IF Len(m.flushQueue) = 0 THEN @ + 1 ELSE @]

\* a faulty variant: no delete before the add, so a queued id keeps its place
EnqueueNoReappend(m, id) ==
    LET m2 == [m EXCEPT !.flushQueue = SeqAdd(@, id),
                        !.queued = Append(@, id)]
    IN IF Len(m2.flushQueue) # 1 THEN m2
       ELSE [m2 EXCEPT !.microtasks = @ + 1]

\* a faulty variant: the parent of an invalidated watcher is invalidated with it
EnqueueWithParent(m, id) ==
    LET m1 == QueueDelete(m, id)
        ids == IF m.wobj[id].parent = 0 THEN << id >> ELSE << id, m.wobj[id].parent >>
        m2 == [m1 EXCEPT !.flushQueue = SeqDelete(@, ids[Len(ids)]) \o ids,
                         !.queued = @ \o ids]
    IN IF Len(m.flushQueue) # 0 THEN m2
       ELSE [m2 EXCEPT !.microtasks = @ + 1]

\* lines 479-487: delete, add, and queueMicrotask when the size is 1
Enqueue(m, id) ==
    LET m1 == QueueDelete(m, id)
        m2 == [m1 EXCEPT !.flushQueue = Append(@, id),
                         !.queued = Append(@, id)]
    IN IF Len(m2.flushQueue) # 1 THEN m2
       ELSE [m2 EXCEPT !.microtasks = @ + 1]

RECURSIVE EnqueueAll(_, _)
EnqueueAll(m, ids) ==
    IF ids = << >> THEN m ELSE EnqueueAll(Enqueue(m, Head(ids)), Tail(ids))

\* a faulty variant: one map of paths for all the stores
CallWatchersShared(m, o, prop, st) ==
    LET currentPath == GetPath(m, o, prop)
        stores == { t \in DOMAIN m.pathWatcherIds : currentPath \in DOMAIN m.pathWatcherIds[t] }
        subs == [t \in stores |-> m.subsSets[m.pathWatcherIds[t][currentPath]]]
        lo == CHOOSE t \in stores : \A u \in stores : t <= u
        hi == CHOOSE t \in stores : \A u \in stores : u <= t
    IN IF stores = {} THEN m
       ELSE EnqueueAll(EnqueueAll(m, subs[lo]), IF hi = lo THEN << >> ELSE subs[hi])

\* lines 459-487; st is the store whose pathWatcherIds the Proxy closes over
CallWatchers(m, o, prop, st) ==
    LET currentPath == GetPath(m, o, prop)
    IN IF currentPath \notin DOMAIN m.pathWatcherIds[st] THEN m
       ELSE EnqueueAll(m, m.subsSets[m.pathWatcherIds[st][currentPath]])

-----------------------------------------------------------------------------
(* The set trap *)

\* a faulty variant: strict instead of loose inequality
ShouldTriggerStrict(value, oldValue, prop) == value # oldValue \/ prop = Klength

\* line 418: value != oldValue || prop === "length"
ShouldTrigger(value, oldValue, prop) == ~LooseEq(value, oldValue) \/ prop = Klength

\* a faulty variant: the trap invalidates the parent's path instead of the written one
SetTrapParentPath(m, o, prop, value) ==
    LET m3 == RawSet(m, o, prop, value)
    IN IF m.objs[o].parent = NoParent THEN m3
       ELSE CallWatchers(m3, m.objs[o].parent[1], m.objs[o].parent[2], m.objs[o].store)

\* a faulty variant: the link of a moved element keeps the index it was wrapped at
SetTrapNoRefresh(m, o, prop, value) ==
    LET oldValue == RawGet(m, o, prop)
        m1 == IF ParentOfVal(m, oldValue) # NoParent
              THEN [m EXCEPT !.objs[oldValue.v].detached = TRUE]
              ELSE m
        m3 == RawSet(m1, o, prop, value)
    IN IF ShouldTrigger(value, oldValue, prop)
       THEN CallWatchers(m3, o, prop, m.objs[o].store)
       ELSE m3

\* lines 396-423, for a string prop
SetTrap(m, o, prop, value) ==
    LET oldValue == RawGet(m, o, prop)
        m1 == IF ParentOfVal(m, oldValue) # NoParent
              THEN [m EXCEPT !.objs[oldValue.v].detached = TRUE]
              ELSE m
        m2 == IF ParentOfVal(m1, value) # NoParent /\ m1.objs[o].arr /\ IsIndexKey(prop)
              THEN [m1 EXCEPT !.objs[value.v].parent[2] = prop]
              ELSE m1
        m3 == RawSet(m2, o, prop, value)
    IN IF ShouldTrigger(value, oldValue, prop)
       THEN CallWatchers(m3, o, prop, m.objs[o].store)
       ELSE m3

-----------------------------------------------------------------------------
(* The deleteProperty trap *)

\* delete obj[prop] on the raw object (the length of an array is kept)
RawDelete(m, o, prop) ==
    [m EXCEPT !.objs[o].f = Drop(@, {prop}),
              !.objs[o].getters = Drop(@, {prop}),
              !.objs[o].getW = Drop(@, {prop})]

\* a faulty variant: the prefix match without the separator
IsUnderPrefix(path, currentPath) == StartsWith(path, currentPath)

\* lines 431-435: the entry of the path itself or of a path nested under it
IsUnder(path, currentPath) ==
    path = currentPath \/ StartsWith(path, currentPath \o << pathSeparator >>)

\* lines 429-438: the entries of the subscriber map that the delete removes
Forget(m, st, currentPath) ==
    [m EXCEPT !.pathWatcherIds[st] =
        Drop(@, { path \in DOMAIN @ : IsUnder(path, currentPath) })]

\* lines 424-443, for a string prop
DeleteTrap(m, o, prop) ==
    RawDelete(Forget(CallWatchers(m, o, prop, m.objs[o].store), m.objs[o].store,
                     GetPath(m, o, prop)),
              o, prop)

-----------------------------------------------------------------------------
(* Watchers *)

NoHook == << >>

\* the watcher object of lines 74-80
NewWatcher(tracked, untracked, env) ==
    [parent |-> 0, children |-> << >>, pathsSubs |-> {}, unwatched |-> FALSE,
     onRemove |-> NoHook, tracked |-> tracked, untracked |-> untracked,
     env |-> env,
     \* history, not program state: the paths the tracked callback read in its
     \* last run, the watcher active when this one first ran, and whether a
     \* removal pass has processed a release of this watcher; and whether the
     \* last run read through a captured reference whose place another
     \* container had taken
     reads |-> {}, firstParent |-> 0, expired |-> FALSE, viaStale |-> FALSE]

NoEnv == [obj |-> 0, prop |-> << >>, base |-> << >>]

\* rel: the watcher was released when the event happened
Event(e, w, rel) == [e |-> e, w |-> w, rel |-> rel]

Logged(m, e, w) == [m EXCEPT !.log = Append(@, Event(e, w, m.wobj[w].unwatched))]

\* a faulty variant: a timer that is already armed is left running
UnwatchKeepTimer(m, w) ==
    [m EXCEPT !.wobj[w].unwatched = TRUE,
              !.toRemove = Append(@, w),
              !.cleanTimeoutId = TRUE,
              !.clock = [timer |-> IF m.cleanTimeoutId THEN @.timer ELSE 0, idle |-> 0]]

\* watcher.unwatch, lines 140-158: the timer is cleared and armed again
Unwatch(m, w) ==
    [m EXCEPT !.wobj[w].unwatched = TRUE,
              !.toRemove = Append(@, w),
              !.cleanTimeoutId = TRUE,
              !.clock = [timer |-> 0, idle |-> 0]]

\* subs.delete(id) for every Set of a collection of subscriber Sets
DeleteFromSubs(m, sids, id) ==
    [m EXCEPT !.subsSets = [i \in DOMAIN @ |-> IF i \in sids THEN SeqDelete(@[i], id) ELSE @[i]]]

\* a faulty variant: a run that keeps the subscriptions of the previous run
ResetSubsKeep(m, w) == m

\* lines 124-126
ResetSubs(m, w) == DeleteFromSubs(m, m.wobj[w].pathsSubs, w)

\* lines 87-95
LinkParent(m, w) ==
    IF m.activeWatcher = 0 THEN m
    ELSE [m EXCEPT !.wobj[w].parent = m.activeWatcher,
                   !.wobj[w].firstParent = IF @ = 0 THEN m.activeWatcher ELSE @,
                   !.wobj[m.activeWatcher].children = Append(@, w)]

\* a faulty variant: the subscriber Set is not recorded in the watcher
SubscribeNoRecord(m, st, currentPath) ==
    LET fresh == currentPath \notin DOMAIN m.pathWatcherIds[st]
        sid == IF fresh THEN Len(m.subsSets) + 1 ELSE m.pathWatcherIds[st][currentPath]
        m1 == IF fresh
              THEN [m EXCEPT !.subsSets = Append(@, << >>),
                             !.pathWatcherIds[st] = Put(@, currentPath, sid)]
              ELSE m
    IN [m1 EXCEPT !.subsSets[sid] = SeqAdd(@, m.activeWatcher)]

\* lines 377-391, for the one path of propPaths
Subscribe(m, st, currentPath) ==
    LET fresh == currentPath \notin DOMAIN m.pathWatcherIds[st]
        sid == IF fresh THEN Len(m.subsSets) + 1 ELSE m.pathWatcherIds[st][currentPath]
        m1 == IF fresh
              THEN [m EXCEPT !.subsSets = Append(@, << >>),
                             !.pathWatcherIds[st] = Put(@, currentPath, sid)]
              ELSE m
    IN [m1 EXCEPT !.subsSets[sid] = SeqAdd(@, m.activeWatcher),
                  !.wobj[m.activeWatcher].pathsSubs = @ \cup {sid}]

-----------------------------------------------------------------------------
(* The get trap, watch() and watcher.run(), and the callbacks of the user   *)
(* program, which call one another.  A handler's intermediate states are    *)
(* passed from one operator to the next as arguments.                       *)

RECURSIVE GetTrap(_, _, _)
RECURSIVE Resolve(_, _, _, _)
RECURSIVE Watch(_, _, _, _)
RECURSIVE Run(_, _)
RECURSIVE Call(_, _, _, _, _)
RECURSIVE ReadPath(_, _, _, _, _)

\* lines 289-300: the walk from obj up to the root proxy
RECURSIVE WalkUp(_, _, _, _)
WalkUp(m, activeObj, props, isDetached) ==
    IF m.objs[activeObj].parent = NoParent
    THEN [props |-> props, root |-> activeObj, isDetached |-> isDetached]
    ELSE WalkUp(m, m.objs[activeObj].parent[1],
                Append(props, m.objs[activeObj].parent[2]),
                isDetached \/ m.objs[activeObj].detached)

\* lines 312-314: activeObj[skipSym] = true; item = activeObj?.[props[i]];
\* activeObj[skipSym] = false. activeObj is a proxy or the literal {} (Obj(0))
ResolveItem(m, activeObj, prop) ==
    IF activeObj.t = "proxy"
    THEN GetTrap([m EXCEPT !.objs[activeObj.v].skip = TRUE], activeObj.v, prop)
    ELSE IF activeObj.t = "obj" THEN [m |-> m, val |-> Undef]
    ELSE [m |-> Throw(m), val |-> Undef]

\* lines 316-325: the next activeObj
NextActive(item, i) ==
    IF i = 0
    THEN (IF item.t = "proxy" THEN Obj(item.v) ELSE Obj(0))
    ELSE (IF item.t = "undef" THEN Obj(0) ELSE item)

ResolveNext(g, activeObj, props, i) ==
    IF g.m.thrown THEN [m |-> g.m, obj |-> 0]
    ELSE
    Resolve(IF activeObj.t = "proxy" THEN [g.m EXCEPT !.objs[activeObj.v].skip = FALSE] ELSE g.m,
            NextActive(g.val, i), props, i - 1)

\* lines 311-326: the walk back down from the root
Resolve(m, activeObj, props, i) ==
    IF i < 0 THEN [m |-> m, obj |-> activeObj.v]
    ELSE ResolveNext(ResolveItem(m, activeObj, props[i + 1]), activeObj, props, i)

\* a faulty variant: only the object that was read through is checked for the marker
IsDetachedSelfOnly(m, o) == m.objs[o].detached

\* lines 293-296: some container on the way up carries the detached marker
IsDetached(m, o) == WalkUp(m, o, << >>, FALSE).isDetached

ResolveFrom(m, up) == Resolve(m, Proxy(up.root), up.props, Len(up.props) - 1)

\* lines 285-331: the object the read is made on
Retrace(m, o) ==
    IF m.objs[o].skip \/ m.objs[o].parent = NoParent \/ ~IsDetached(m, o)
    THEN [m |-> m, obj |-> o]
    ELSE ResolveFrom(m, WalkUp(m, o, << >>, FALSE))

ShadowKey(prop) == << "@", "@" >> \o prop

\* a faulty variant: the descriptor does not record the caching watcher
CacheGetterForget(r, o, originalProp, oldActiveWatcher) ==
    IF Halted(r.m) THEN r.m
    ELSE [r.m EXCEPT !.wobj[r.id].onRemove = << o, originalProp >>,
                     !.activeWatcher = oldActiveWatcher]

\* lines 275-281
CacheGetterDone(r, o, originalProp, oldActiveWatcher) ==
    IF Halted(r.m) THEN r.m
    ELSE [r.m EXCEPT !.wobj[r.id].onRemove = << o, originalProp >>,
                     !.objs[o].getW[originalProp] = r.id,
                     !.activeWatcher = oldActiveWatcher]

\* lines 253-282: the internal watcher that caches the getter
CacheGetter(m, o, originalProp) ==
    CacheGetterDone(Watch([m EXCEPT !.activeWatcher = 0], m.objs[o].getters[originalProp], "cache",
                          [obj |-> o, prop |-> ShadowKey(originalProp), base |-> << >>]),
                    o, originalProp, m.activeWatcher)

\* a faulty variant: the Proxy is returned and not stored in place
WrapNoStore(m, o, obj, prop, propVal) ==
    IF propVal.t = "obj" /\ m.objs[propVal.v].parent = NoParent
    THEN [m |-> [m EXCEPT !.objs[propVal.v].parent = << o, prop >>,
                          !.objs[propVal.v].store = m.objs[o].store],
          val |-> Proxy(propVal.v)]
    ELSE [m |-> m, val |-> propVal]

\* lines 340-352: a plain container read for the first time is wrapped in place
Wrap(m, o, obj, prop, propVal) ==
    IF propVal.t = "obj" /\ m.objs[propVal.v].parent = NoParent
    THEN [m |-> RawSet([m EXCEPT !.objs[propVal.v].parent = << o, prop >>,
                                 !.objs[propVal.v].store = m.objs[o].store],
                       obj, prop, Proxy(propVal.v)),
          val |-> Proxy(propVal.v)]
    ELSE [m |-> m, val |-> propVal]

\* lines 354-394: register the active watcher under the path, return propVal
GetFinish(w, o, obj, prop) ==
    [m |-> IF w.m.activeWatcher # 0
           THEN Subscribe(w.m, w.m.objs[o].store, GetPath(w.m, obj, prop))
           ELSE w.m,
     val |-> w.val]

\* lines 333-352
GetOn(d, o, prop) ==
    IF d.m.thrown THEN [m |-> d.m, val |-> Undef]
    ELSE IF RawGet(d.m, d.obj, prop).t = "func"
    THEN [m |-> d.m, val |-> RawGet(d.m, d.obj, prop)]
    ELSE
    GetFinish(Wrap(d.m, o, d.obj, prop, RawGet(d.m, d.obj, prop)), o, d.obj, prop)

\* lines 285-395
GetRest(m, o, prop) ==
    IF Halted(m) THEN [m |-> m, val |-> Undef] ELSE GetOn(Retrace(m, o), o, prop)

\* lines 238-241
IsGetter(m, o, prop) == prop \in DOMAIN m.objs[o].getters /\ m.objs[o].parent = NoParent

\* a faulty variant: a getter is cached also when no watcher is active
GetTrapCached(m, o, prop) ==
    GetRest(IF IsGetter(m, o, prop) /\ m.objs[o].getW[prop] = 0
            THEN CacheGetter(m, o, prop)
            ELSE m,
            o, IF IsGetter(m, o, prop) THEN ShadowKey(prop) ELSE prop)

\* lines 228-395, for a string prop other than __raw; o is the target of the
\* proxy that is read, which is also the receiver
GetTrap(m, o, prop) ==
    IF IsGetter(m, o, prop) /\ m.activeWatcher = 0
    THEN Call(m, m.objs[o].getters[prop], 0, Undef, NoEnv)
    ELSE GetRest(IF IsGetter(m, o, prop) /\ m.objs[o].getW[prop] = 0
                 THEN CacheGetter(m, o, prop)
                 ELSE m,
                 o, IF IsGetter(m, o, prop) THEN ShadowKey(prop) ELSE prop)

\* lines 74-82
Register(m, tracked, untracked, env) ==
    [m EXCEPT !.wobj = Append(@, NewWatcher(tracked, untracked, env)),
              !.allWatchers = @ \cup {Len(m.wobj) + 1}]

\* a faulty variant: the tracked callback is run a second time on registration
WatchRunTwice(m, tracked, untracked, env) ==
    IF m.thrown THEN [m |-> m, id |-> 0]
    ELSE IF m.overflow \/ Len(m.wobj) >= MaxWatchers
    THEN [m |-> [m EXCEPT !.overflow = TRUE], id |-> 0]
    ELSE [m |-> Run(Run(Register(m, tracked, untracked, env), Len(m.wobj) + 1), Len(m.wobj) + 1),
          id |-> Len(m.wobj) + 1]

\* lines 73-82 and 160-162
Watch(m, tracked, untracked, env) ==
    IF m.thrown THEN [m |-> m, id |-> 0]
    ELSE IF m.overflow \/ Len(m.wobj) >= MaxWatchers
    THEN [m |-> [m EXCEPT !.overflow = TRUE], id |-> 0]
    ELSE [m |-> Run(Register(m, tracked, untracked, env), Len(m.wobj) + 1),
          id |-> Len(m.wobj) + 1]

\* a faulty variant: a run starts with an empty list of children
RunEnterFresh(m, w) ==
    Logged([ResetSubs(LinkParent(m, w), w) EXCEPT !.activeWatcher = w, !.wobj[w].reads = {},
                                                  !.wobj[w].children = << >>],
           "run", w)

\* lines 85-128
RunEnter(m, w) ==
    Logged([ResetSubs(LinkParent(m, w), w) EXCEPT !.activeWatcher = w, !.wobj[w].reads = {}],
           "run", w)

\* a faulty variant: the cursor is cleared when a run ends
RunExitClear(m, oldActiveWatcher) == [m EXCEPT !.activeWatcher = 0]

\* line 137
RunExit(m, oldActiveWatcher) == [m EXCEPT !.activeWatcher = oldActiveWatcher]

\* lines 128-137 are not wrapped in try/finally: a throw leaves run() at once
RunFinish(m, oldActiveWatcher) == IF m.thrown THEN m ELSE RunExit(m, oldActiveWatcher)

\* a faulty variant: the cursor is not cleared for the untracked callback
RunUntrackedKeep(r, w, oldActiveWatcher) ==
    IF r.m.thrown THEN r.m
    ELSE RunFinish(IF r.m.overflow \/ r.m.wobj[w].untracked = "none" THEN r.m
                   ELSE Call(Logged(r.m, "untracked", w), r.m.wobj[w].untracked, w,
                             r.val, r.m.wobj[w].env).m,
                   oldActiveWatcher)

\* lines 131-137
RunUntracked(r, w, oldActiveWatcher) ==
    IF r.m.thrown THEN r.m
    ELSE RunFinish(IF r.m.overflow \/ r.m.wobj[w].untracked = "none" THEN r.m
                   ELSE Call(Logged([r.m EXCEPT !.activeWatcher = 0], "untracked", w),
                             r.m.wobj[w].untracked, 0, r.val, r.m.wobj[w].env).m,
                   oldActiveWatcher)

\* watcher.run, lines 84-138
Run(m, w) ==
    RunUntracked(Call(RunEnter(m, w), m.wobj[w].tracked, w, Undef, m.wobj[w].env),
                 w, m.activeWatcher)

-----------------------------------------------------------------------------
(* The user program: the stores and the callbacks of the test suites *)

RECURSIVE JoinFrom(_, _)
JoinFrom(keys, i) ==
    IF i >= Len(keys) THEN keys[i]
    ELSE keys[i] \o << pathSeparator >> \o JoinFrom(keys, i + 1)

Join(keys) == JoinFrom(keys, 1)

\* the tracked callback of watcher self has read the path keys[1..n] of store st
NoteRead(m, self, st, keys, n) ==
    IF self = 0 \/ Halted(m) THEN m
    ELSE [m EXCEPT !.wobj[self].reads = @ \cup { << st, Join(SubSeq(keys, 1, n)) >> }]

ReadNext(g, self, st, keys, done) ==
    IF done + 1 < Len(keys) /\ g.val.t = "proxy"
    THEN ReadPath(NoteRead(g.m, self, st, keys, done + 1), self, g.val.v, keys, done + 1)
    ELSE [m |-> NoteRead(g.m, self, st, keys, done + 1),
          val |-> IF done + 1 = Len(keys) THEN g.val ELSE Undef]

\* the reads of a?.b?.c on the proxy of o, made by the callback of watcher
\* self (0: not a tracked callback); done is the number of keys already read
ReadPath(m, self, o, keys, done) ==
    ReadNext(GetTrap(m, o, keys[done + 1]), self, m.objs[o].store, keys, done)

\* The root objects of the stores
Root1 == 1
Root2 == 2

CondBranch(r, self) ==
    ReadPath(r.m, self, Root1, << IF GreaterThan(r.val, 0) THEN Kb ELSE Kc >>, 0)

\* state.test.js 986-993: if (data.a > 0) { data.b } else { data.c }
CallCond(m, self) == CondBranch(ReadPath(m, self, Root1, << Ka >>, 0), self)

OuterAssign(w) ==
    [m |-> IF w.m.thrown THEN w.m ELSE [w.m EXCEPT !.uvars.w2 = w.id], val |-> Undef]

OuterWatch(m) ==
    IF m.thrown THEN [m |-> m, val |-> Undef]
    ELSE
    OuterAssign(Watch(IF m.uvars.w2 # 0 THEN Unwatch(m, m.uvars.w2) ELSE m,
                      "inner", "none", NoEnv))

\* state.test.js 24-38: data.count1; w2?.unwatch(); w2 = watch(inner)
CallOuter(m, self) == OuterWatch(ReadPath(m, self, Root1, << Ka >>, 0).m)

NestWatch(m) ==
    IF m.thrown THEN [m |-> m, val |-> Undef]
    ELSE
    OuterAssign(Watch(IF m.uvars.w2 # 0 THEN Unwatch(m, m.uvars.w2) ELSE m,
                      "valid", "none", NoEnv))

\* state.test.js 24-38 with the inner watcher of 782-787:
\* data.val; w2?.unwatch(); w2 = watch(() => data.isValid)
CallNest(m, self) == NestWatch(ReadPath(m, self, Root1, << Kval >>, 0).m)

\* state.test.js 24-38 with a read after the nested watch:
\* data.a; w2?.unwatch(); w2 = watch(inner); data.c
CallAround(m, self) ==
    ReadPath(OuterWatch(ReadPath(m, self, Root1, << Ka >>, 0).m).m, self, Root1, << Kc >>, 0)

\* state.test.js 29-31: data.count2
CallInner(m, self) == ReadPath(m, self, Root1, << Kb >>, 0)

\* state.test.js 842-847: get isValid() { return !!data.val && data.val.length > 3 },
\* with a number for the string and its length
IsValidResult(r) == [m |-> r.m, val |-> Bool(GreaterThan(r.val, 1))]

IsValidSecond(r, self) ==
    IF Truthy(r.val) THEN IsValidResult(ReadPath(r.m, self, Root1, << Kval >>, 0))
    ELSE [m |-> r.m, val |-> Bool(FALSE)]

CallIsValid(m, self) ==
    IsValidSecond(ReadPath([m EXCEPT !.log = Append(@, Event("get", self, FALSE))],
                           self, Root1, << Kval >>, 0), self)

MixedAssign(r) ==
    [m |-> IF r.m.thrown THEN r.m ELSE [r.m EXCEPT !.uvars.seen = Bool(Truthy(r.val))],
     val |-> Undef]

MixedSecond(r, self) ==
    IF Truthy(r.val) THEN MixedAssign(ReadPath(r.m, self, Root1, << KisValid >>, 0))
    ELSE MixedAssign(r)

\* state.test.js 849-852: watchVal = !!data.val && data.isValid ? true : false
CallMixed(m, self) == MixedSecond(ReadPath(m, self, Root1, << Kval >>, 0), self)

\* state.test.js 782-787: data.fullName, a watcher that reads only the getter
CallValid(m, self) == ReadPath(m, self, Root1, << KisValid >>, 0)

BothSecond(r, self) == ReadPath(r.m, self, Root2, << Kn >>, 0)

\* README.md 152-157 over two stores: data.val; other.n
CallBoth(m, self) == BothSecond(ReadPath(m, self, Root1, << Kval >>, 0), self)

\* state.test.js 296-322: data.a, data.a?.b?.c and a read of the sibling
CallA(m, self) == ReadPath(m, self, Root1, << Ka >>, 0)

CallFull(m, self) == ReadPath(m, self, Root1, << Ka, Kb, Kc >>, 0)

CallN(m, self) == ReadPath(m, self, Root1, << Kn >>, 0)

\* README.md 152-157 over two stores: a watcher that reads only other.n
CallOther(m, self) == ReadPath(m, self, Root2, << Kn >>, 0)

\* a watcher of the sibling whose name begins with the name of the container: data.ab
CallAb(m, self) == ReadPath(m, self, Root1, << Kab >>, 0)

DetachedAssign(r) ==
    [m |-> IF r.m.thrown THEN r.m ELSE [r.m EXCEPT !.uvars.detached = r.val], val |-> Undef]

\* the value stored at keys below the raw object o
RECURSIVE WalkRaw(_, _, _)
WalkRaw(m, o, keys) ==
    IF Len(keys) = 1 THEN RawGet(m, o, keys[1])
    ELSE IF IsRef(RawGet(m, o, keys[1])) THEN WalkRaw(m, RawGet(m, o, keys[1]).v, Tail(keys))
    ELSE Undef

\* the tree holds at a.b a container with the key c that is not the captured one
StaleRef(m, o) ==
    /\ IsRef(WalkRaw(m, Root1, << Ka, Kb >>))
    /\ WalkRaw(m, Root1, << Ka, Kb >>).v # o
    /\ HasOwn(m, WalkRaw(m, Root1, << Ka, Kb >>).v, Kc)

NoteStale(m, self, env) ==
    IF self = 0 THEN m ELSE [m EXCEPT !.wobj[self].viaStale = StaleRef(m, env.obj)]

\* state.test.js 1098-1100: fired.detached = subStore?.c
CallDetached(m, env) ==
    DetachedAssign(IF env.obj = 0 THEN [m |-> m, val |-> Undef] ELSE GetTrap(m, env.obj, Kc))

\* the array [x, y] that a callback returns
Pair(x, y) == [t |-> "list", v |-> 0, first |-> x, second |-> y]

PairSecond(r, self, x) == [m |-> r.m, val |-> Pair(x, r.val)]

PairFirst(r, self) == PairSecond(ReadPath(r.m, self, Root1, << Kb >>, 0), self, r.val)

\* state.test.js 1051: () => [data.a, data.b]
CallPair(m, self) == PairFirst(ReadPath(m, self, Root1, << Ka >>, 0), self)

PrintAssign(r, arg) ==
    [m |-> IF r.m.thrown THEN r.m ELSE [r.m EXCEPT !.uvars.seen = arg], val |-> Undef]

PrintThird(r, self, arg) == PrintAssign(ReadPath(r.m, self, Root1, << Kc >>, 0), arg)

PrintSecond(r, self, arg) == PrintThird(ReadPath(r.m, self, Root1, << Kb >>, 0), self, arg)

\* README.md 213-217: the untracked callback reads data.a, data.b and data.c
CallPrint(m, self, arg) == PrintSecond(ReadPath(m, self, Root1, << Ka >>, 0), self, arg)

\* a callback that throws: if (data.b > 0) throw new Error()
FailIf(r) ==
    IF ~Halted(r.m) /\ GreaterThan(r.val, 0) THEN [m |-> Throw(r.m), val |-> Undef] ELSE r

CallFail(m, self) == FailIf(ReadPath(m, self, Root1, << Kb >>, 0))

\* a callback that writes what it reads: data.val = data.val + 1
LoopWrite(r) ==
    IF Halted(r.m) THEN r
    ELSE [m |-> SetTrap(r.m, Root1, Kval, Num(r.val.v + 1)), val |-> Undef]

CallLoop(m, self) == LoopWrite(ReadPath(m, self, Root1, << Kval >>, 0))

\* a callback that records what it reads: seen = data.b
SeenAssign(r) ==
    [m |-> IF Halted(r.m) THEN r.m ELSE [r.m EXCEPT !.uvars.seen = r.val], val |-> Undef]

CallChild(m, self) == SeenAssign(ReadPath(m, self, Root1, << Kb >>, 0))

ParentWatch(m) ==
    IF m.thrown THEN [m |-> m, val |-> Undef]
    ELSE
    OuterAssign(Watch(IF m.uvars.w2 # 0 THEN Unwatch(m, m.uvars.w2) ELSE m,
                      "child", "none", NoEnv))

\* state.test.js 24-38 with a child that records what it reads:
\* data.a; w2?.unwatch(); w2 = watch(() => { seen = data.b })
CallParent(m, self) == ParentWatch(ReadPath(m, self, Root1, << Ka >>, 0).m)

\* a callback that writes another property: data.b = data.c
RelayWrite(r) ==
    IF Halted(r.m) THEN r
    ELSE [m |-> SetTrap(r.m, Root1, Kb, r.val), val |-> Undef]

CallRelay(m, self) == RelayWrite(ReadPath(m, self, Root1, << Kc >>, 0))

\* the watcher the main program made with the callback kind, 0 before that
HandleOf(m, kind) ==
    IF \E w \in 1..Len(m.wobj) : m.wobj[w].tracked = kind
    THEN CHOOSE w \in 1..Len(m.wobj) : m.wobj[w].tracked = kind
    ELSE 0

\* if (x > 0) other?.run()
RunOther(r, kind) ==
    IF Halted(r.m) \/ ~GreaterThan(r.val, 0) \/ HandleOf(r.m, kind) = 0
    THEN [m |-> r.m, val |-> Undef]
    ELSE [m |-> Run(r.m, HandleOf(r.m, kind)), val |-> Undef]

\* wA = watch(() => { if (data.a > 0) wB?.run() })
CallRunB(m, self) == RunOther(ReadPath(m, self, Root1, << Ka >>, 0), "runA")

\* wB = watch(() => { if (data.b > 0) wA.run() })
CallRunA(m, self) == RunOther(ReadPath(m, self, Root1, << Kb >>, 0), "runB")

LeakyWatch(m) ==
    IF m.thrown THEN [m |-> m, val |-> Undef]
    ELSE [m |-> Watch(m, "inner", "none", NoEnv).m, val |-> Undef]

\* state.test.js 24-38 without the release: data.a; watch(() => data.b)
CallLeaky(m, self) == LeakyWatch(ReadPath(m, self, Root1, << Ka >>, 0).m)

\* state.test.js 499-530: data.count, data.simple.length and data.simple[0]
CallCount(m, self) == ReadPath(m, self, Root1, << Kcount >>, 0)

CallLength(m, self) == ReadPath(m, self, Root1, << Ksimple, Klength >>, 0)

CallItem(m, self) == ReadPath(m, self, Root1, << Ksimple, IndexKey(0) >>, 0)

\* () => data.a[0]?.c
CallFirst(m, self) == ReadPath(m, self, Root1, << Ka, IndexKey(0), Kc >>, 0)

\* () => data.a[1]?.c
CallSecond(m, self) == ReadPath(m, self, Root1, << Ka, IndexKey(1), Kc >>, 0)

\* a faulty variant: the cached value is written without the comparison of the set trap
CallCacheAlways(m, env, result) ==
    [m |-> CallWatchers(RawSet(m, env.obj, env.prop, result), env.obj, env.prop,
                        m.objs[env.obj].store),
     val |-> Undef]

\* lines 262-272: the untracked callback of the internal watcher
CallCache(m, env, result) ==
    [m |-> IF ~HasOwn(m, env.obj, env.prop)
           THEN RawSet(m, env.obj, env.prop, result)
           ELSE SetTrap(m, env.obj, env.prop, result),
     val |-> Undef]

\* a callback of the program: kind names the function, self is the watcher
\* whose tracked callback it is (0 otherwise), arg its argument, env its closure
Call(m, kind, self, arg, env) ==
    IF Halted(m) THEN [m |-> m, val |-> Undef]
    ELSE CASE kind = "cond" -> CallCond(m, self)
           [] kind = "outer" -> CallOuter(m, self)
           [] kind = "inner" -> CallInner(m, self)
           [] kind = "isValid" -> CallIsValid(m, self)
           [] kind = "mixed" -> CallMixed(m, self)
           [] kind = "valid" -> CallValid(m, self)
           [] kind = "cache" -> CallCache(m, env, arg)
           [] kind = "both" -> CallBoth(m, self)
           [] kind = "a" -> CallA(m, self)
           [] kind = "full" -> CallFull(m, self)
           [] kind = "n" -> CallN(m, self)
           [] kind = "detached" -> CallDetached(NoteStale(m, self, env), env)
           [] kind = "count" -> CallCount(m, self)
           [] kind = "length" -> CallLength(m, self)
           [] kind = "item" -> CallItem(m, self)
           [] kind = "loop" -> CallLoop(m, self)
           [] kind = "fail" -> CallFail(m, self)
           [] kind = "pair" -> CallPair(m, self)
           [] kind = "print" -> CallPrint(m, self, arg)
           [] kind = "nest" -> CallNest(m, self)
           [] kind = "around" -> CallAround(m, self)
           [] kind = "runB" -> CallRunB(m, self)
           [] kind = "runA" -> CallRunA(m, self)
           [] kind = "leaky" -> CallLeaky(m, self)
           [] kind = "child" -> CallChild(m, self)
           [] kind = "parent" -> CallParent(m, self)
           [] kind = "relay" -> CallRelay(m, self)
           [] kind = "ab" -> CallAb(m, self)
           [] kind = "first" -> CallFirst(m, self)
           [] kind = "second" -> CallSecond(m, self)
           [] kind = "other" -> CallOther(m, self)
           [] OTHER -> [m |-> m, val |-> Undef]

-----------------------------------------------------------------------------
(* The flush microtask, lines 487-522 *)

\* a faulty variant: a released watcher is still run
SkipRunIgnoreUnwatched(m, runId) ==
    \/ runId \notin m.allWatchers
    \/ /\ m.wobj[runId].parent # 0
       /\ m.wobj[runId].parent \in SeqToSet(m.flushQueue)

\* a faulty variant: a child is run although its parent is pending
SkipRunIgnoreParent(m, runId) ==
    \/ runId \notin m.allWatchers
    \/ m.wobj[runId].unwatched

\* lines 492-502: the watcher is missing, released, or its parent is pending
SkipRun(m, runId) ==
    \/ runId \notin m.allWatchers
    \/ m.wobj[runId].unwatched
    \/ /\ m.wobj[runId].parent # 0
       /\ m.wobj[runId].parent \in SeqToSet(m.flushQueue)

CountOf(calls, id) == IF id \in DOMAIN calls THEN calls[id] ELSE 0

\* a faulty variant: the guard lets one more run through
OverCeilingLax(n) == n > RunCeiling + 1

\* line 506
OverCeiling(n) == n > RunCeiling

\* the for-of loop over flushQueue has visited every entry, or was left by a throw
FlushDone(s) == Halted(s.m) \/ s.m.it >= Len(s.m.flushQueue)

\* lines 491-518: the body of the loop for the entry after the m.it visited ones
Visit(s) ==
    LET runId == s.m.flushQueue[s.m.it + 1]
        m1 == [s.m EXCEPT !.it = @ + 1]
        calls1 == Put(s.calls, runId, CountOf(s.calls, runId) + 1)
    IN IF SkipRun(m1, runId) THEN [m |-> m1, calls |-> s.calls]
       ELSE IF OverCeiling(calls1[runId])
       THEN [m |-> Logged(m1, "warn", runId), calls |-> calls1]
       ELSE [m |-> Run(Logged(m1, "flush", runId), runId), calls |-> calls1]

\* more visits than a loop can make: a watcher is run at most RunCeiling
\* times, and a run appends at most every watcher to the Set
VisitBound == (RunCeiling + 2) * (MaxWatchers + 1) * (MaxWatchers + 1)

\* the value x, computed in full before it is used
Strict(x) == IF x = x THEN x ELSE x

\* at most n iterations of the loop, halved so that the evaluation stays shallow
RECURSIVE FlushIter(_, _)
FlushIter(s, n) ==
    IF FlushDone(s) \/ n = 0 THEN s
    ELSE IF n = 1 THEN Strict(Visit(s))
    ELSE FlushIter(FlushIter(s, n \div 2), n - (n \div 2))

FlushStop(s) == IF FlushDone(s) THEN s.m ELSE [s.m EXCEPT !.overflow = TRUE]

\* the for-of loop over flushQueue; m.it entries have been visited
FlushLoop(m, calls) == FlushStop(FlushIter([m |-> m, calls |-> calls], VisitBound))

\* line 521, reached only when the loop was not left by a throw
FlushEnd(m) ==
    IF m.thrown THEN [m EXCEPT !.it = 0] ELSE [m EXCEPT !.flushQueue = << >>, !.it = 0]

FlushTask(m) == FlushEnd(FlushLoop([m EXCEPT !.it = 0], EmptyMap))

-----------------------------------------------------------------------------
(* The removal timer, lines 150-157 and removeWatcher, lines 165-186 *)

RECURSIVE RemoveWatcher(_, _)
RECURSIVE RemoveAll(_, _)

RemoveAll(m, ids) ==
    IF ids = << >> THEN m ELSE RemoveAll(RemoveWatcher(m, Head(ids)), Tail(ids))

\* a faulty variant: the children of a removed watcher stay registered
RemoveChildrenNot(m, id) == m

\* lines 170-176
RemoveChildren(m, id) ==
    IF m.wobj[id].children = << >> THEN m
    ELSE [RemoveAll(m, m.wobj[id].children) EXCEPT !.wobj[id].parent = 0,
                                                   !.wobj[id].children = << >>]

\* a faulty variant: the removed watcher stays in its subscriber Sets
RemoveWatcherKeepSubs(m, id) ==
    IF id \notin m.allWatchers THEN m
    ELSE LET hook == m.wobj[id].onRemove
             m1 == IF hook = NoHook THEN m
                   ELSE [m EXCEPT !.objs[hook[1]].getW[hook[2]] = 0]
             m2 == RemoveChildren(m1, id)
         IN [m2 EXCEPT !.allWatchers = @ \ {id}]

\* lines 165-186
RemoveWatcher(m, id) ==
    IF id \notin m.allWatchers THEN m
    ELSE LET hook == m.wobj[id].onRemove
             m1 == IF hook = NoHook THEN m
                   ELSE [m EXCEPT !.objs[hook[1]].getW[hook[2]] = 0]
             m2 == RemoveChildren(m1, id)
             m3 == [DeleteFromSubs(m2, m2.wobj[id].pathsSubs, id) EXCEPT !.wobj[id].pathsSubs = {}]
         IN [m3 EXCEPT !.allWatchers = @ \ {id}]

CleanTimeout(m) ==
    [RemoveAll(m, m.toRemove) EXCEPT
        !.toRemove = << >>,
        !.cleanTimeoutId = FALSE,
        !.wobj = [w \in DOMAIN @ |-> IF w \in SeqToSet(m.toRemove)
                                      THEN [@[w] EXCEPT !.expired = TRUE] ELSE @[w]]]

-----------------------------------------------------------------------------
(* The handlers as actions *)

Cur ==
    [objs |-> objs, pathWatcherIds |-> pathWatcherIds, subsSets |-> subsSets,
     wobj |-> wobj, allWatchers |-> allWatchers, activeWatcher |-> activeWatcher,
     flushQueue |-> flushQueue, toRemove |-> toRemove, cleanTimeoutId |-> cleanTimeoutId,
     clock |-> clock,
     microtasks |-> microtasks, uvars |-> uvars,
     log |-> << >>, queued |-> << >>, it |-> 0, overflow |-> FALSE, thrown |-> FALSE]

\* the watchers subscribed under each path of each store
Subscribers ==
    [st \in DOMAIN pathWatcherIds |->
        [p \in DOMAIN pathWatcherIds[st] |-> subsSets[pathWatcherIds[st][p]]]]

\* invalidating writes made since the last flush, counted up to 2
Batch == IF lastOp.op = "flush" THEN 0 ELSE lastOp.batch

\* the record of a handler: what it was called with and, from the state it
\* started in, the pending set and (for a flush) the subscribers
Op(name, path, old, val, w) ==
    [op |-> name, path |-> path, old |-> old, val |-> val, w |-> w,
     queue0 |-> flushQueue,
     subs0 |-> IF name \in {"flush", "delete"} THEN Subscribers ELSE EmptyMap,
     remove0 |-> IF name = "timer" THEN toRemove ELSE << >>,
     batch |-> Batch, queued |-> << >>, thrown |-> FALSE]

\* the handler ran within the bounds and left m
StoreStep(m, op) ==
    /\ ~m.overflow
    /\ m.microtasks <= MaxMicro
    /\ objs' = m.objs
    /\ pathWatcherIds' = m.pathWatcherIds
    /\ subsSets' = m.subsSets
    /\ wobj' = m.wobj
    /\ allWatchers' = m.allWatchers
    /\ activeWatcher' = m.activeWatcher
    /\ flushQueue' = m.flushQueue
    /\ toRemove' = m.toRemove
    /\ cleanTimeoutId' = m.cleanTimeoutId
    /\ clock' = m.clock
    /\ microtasks' = m.microtasks
    /\ uvars' = m.uvars
    /\ log' = m.log
    /\ lastOp' = [op EXCEPT !.queued = m.queued, !.thrown = m.thrown,
                             !.batch = IF op.op = "write" /\ m.queued # << >> /\ @ < 2
                                       THEN @ + 1 ELSE @]

\* a handler of state.js: router.js is not involved
Step(m, op) == StoreStep(m, op) /\ UNCHANGED << router, dom >>

\* watch(kind) called by the main program, once per kind
WatchStep(kinds) ==
    \E k \in kinds :
        /\ k \notin uvars.made
        /\ Step(Watch([Cur EXCEPT !.uvars.made = @ \cup {k}], k, "none", NoEnv).m,
                Op("watch", << >>, Undef, Undef, Len(wobj) + 1))

\* watch(kind) called by the main program, in the order of the program text
WatchInOrder(order) ==
    \E i \in DOMAIN order :
        /\ order[i] \notin uvars.made
        /\ \A j \in 1..(i - 1) : order[j] \in uvars.made
        /\ Step(Watch([Cur EXCEPT !.uvars.made = @ \cup {order[i]}], order[i], "none", NoEnv).m,
                Op("watch", << >>, Undef, Undef, Len(wobj) + 1))

\* watch(tracked, untracked) called by the main program, once
WatchWith(tracked, untracked) ==
    /\ tracked \notin uvars.made
    /\ Step(Watch([Cur EXCEPT !.uvars.made = @ \cup {tracked}], tracked, untracked, NoEnv).m,
            Op("watch", << >>, Undef, Undef, Len(wobj) + 1))

\* the object a literal of the user program makes: v, {c: v} or {b: {c: v}}
Literal(m, shape, v) ==
    CASE shape = "c" ->
           LET a == Alloc(m, NewObj(Put(EmptyMap, Kc, v), FALSE))
           IN [m |-> a.m, val |-> Obj(a.id)]
      [] shape = "bc" ->
           LET a == Alloc(m, NewObj(Put(EmptyMap, Kc, v), FALSE))
               b == Alloc(a.m, NewObj(Put(EmptyMap, Kb, Obj(a.id)), FALSE))
           IN [m |-> b.m, val |-> Obj(b.id)]
      [] OTHER -> [m |-> m, val |-> v]

\* root.k1.k2 ... of the main program: the container reached, 0 if none
RECURSIVE Navigate(_, _, _)

NavigateNext(g, keys) ==
    IF g.val.t = "proxy" THEN Navigate(g.m, g.val.v, Tail(keys))
    ELSE [m |-> g.m, obj |-> 0]

Navigate(m, o, keys) ==
    IF keys = << >> THEN [m |-> m, obj |-> o]
    ELSE NavigateNext(GetTrap(m, o, Head(keys)), keys)

WatchCaptured(n) ==
    /\ n.obj # 0
    /\ Step(Watch([n.m EXCEPT !.uvars.made = @ \cup {"detached"}], "detached", "none",
                  [obj |-> n.obj, prop |-> << >>, base |-> << >>]).m,
            Op("watch", << >>, Undef, Undef, Len(wobj) + 1))

\* detachedWatcher(data.a.b) called by the main program, once
WatchDetachedStep ==
    /\ "detached" \notin uvars.made
    /\ "full" \in uvars.made
    /\ WatchCaptured(Navigate(Cur, Root1, << Ka, Kb >>))

\* one step of the move loops of Array.prototype.unshift, shift and splice on
\* the proxy of o: if (from in O) O[to] = O[from]; else delete O[to]
MoveSet(g, o, to) == IF Halted(g.m) THEN g.m ELSE SetTrap(g.m, o, to, g.val)

MoveItem(m, o, from, to) ==
    IF HasOwn(m, o, from) THEN MoveSet(GetTrap(m, o, from), o, to)
    ELSE DeleteTrap(m, o, to)

\* the items start..k-1 are moved one index up, the last one first
RECURSIVE MoveUp(_, _, _, _)
MoveUp(m, o, k, start) ==
    IF k <= start \/ Halted(m) THEN m
    ELSE MoveUp(MoveItem(m, o, IndexKey(k - 1), IndexKey(k)), o, k - 1, start)

\* the items k+1..len-1 are moved one index down, the first one first
RECURSIVE MoveDown(_, _, _, _)
MoveDown(m, o, k, len) ==
    IF k >= len - 1 \/ Halted(m) THEN m
    ELSE MoveDown(MoveItem(m, o, IndexKey(k + 1), IndexKey(k)), o, k + 1, len)

InsertFrom(g, o, start, item) ==
    SetTrap(SetTrap(MoveUp(g.m, o, g.val.v, start), o, IndexKey(start), item),
            o, Klength, Num(g.val.v + 1))

\* proxy.splice(start, 0, item), and proxy.unshift(item) when start is 0:
\* len = O.length; the move loop; O[start] = item; O.length = len + 1
InsertAt(m, o, start, item) == InsertFrom(GetTrap(m, o, Klength), o, start, item)

RemoveFrom(g, o, start, len) ==
    SetTrap(DeleteTrap(MoveDown(g.m, o, start, len), o, IndexKey(len - 1)),
            o, Klength, Num(len - 1))

\* proxy.splice(start, 1), and proxy.shift() when start is 0, for start < len:
\* len = O.length; O[start] is read; the move loop; delete O[len - 1];
\* O.length = len - 1
RemoveAt(m, o, start) ==
    RemoveFrom(GetTrap(GetTrap(m, o, Klength).m, o, IndexKey(start)), o, start,
               GetTrap(m, o, Klength).val.v)

WriteLit(lit, n, t, prop) ==
    /\ n.obj # 0
    /\ Step(SetTrap(lit.m, n.obj, prop, lit.val),
            Op("write", << t.root, Join(t.keys) >>, RawGet(n.m, n.obj, prop), lit.val, 0))

WriteAt(n, t, shape, v) == WriteLit(Literal(n.m, shape, v), n, t, t.keys[Len(t.keys)])

\* root.k1. ... .kn = value in the main program, outside any watcher
WriteStep(targets, shapes, values) ==
    \E t \in targets, shape \in shapes, v \in values :
        /\ microtasks < MaxMicro
        /\ WriteAt(Navigate(Cur, t.root, SubSeq(t.keys, 1, Len(t.keys) - 1)), t, shape, v)

\* a read of root.k1?. ... ?.kn in the main program, outside any watcher
ReadAt(r, t) ==
    Step(r.m, Op("read", << t.root, Join(t.keys) >>,
                 IF Len(t.keys) = 1 THEN RawGet(Cur, t.root, t.keys[1]) ELSE Undef, r.val, 0))

ReadStep(targets) ==
    \E t \in targets : ReadAt(ReadPath(Cur, 0, t.root, t.keys, 0), t)

\* delete root.k1. ... .kn of a property that is there, in the main program
DeleteAt(n, t) ==
    /\ HasOwn(n.m, n.obj, t.keys[Len(t.keys)])
    /\ Step(DeleteTrap(n.m, n.obj, t.keys[Len(t.keys)]),
            Op("delete", << t.root, Join(t.keys) >>, RawGet(n.m, n.obj, t.keys[Len(t.keys)]),
               Undef, 0))

DeleteStep(targets) ==
    \E t \in targets :
        /\ microtasks < MaxMicro
        /\ DeleteAt(Navigate(Cur, t.root, SubSeq(t.keys, 1, Len(t.keys) - 1)), t)

\* delete root.k1. ... .kn in the main program, of a property that may be absent
DeleteAnyAt(n, t) ==
    /\ n.obj # 0
    /\ Step(DeleteTrap(n.m, n.obj, t.keys[Len(t.keys)]),
            Op("delete", << t.root, Join(t.keys) >>, RawGet(n.m, n.obj, t.keys[Len(t.keys)]),
               Undef, 0))

DeleteAnyStep(targets) ==
    \E t \in targets :
        /\ microtasks < MaxMicro
        /\ Len(subsSets) < MaxWatchers + 2
        /\ DeleteAnyAt(Navigate(Cur, t.root, SubSeq(t.keys, 1, Len(t.keys) - 1)), t)

\* handle.run() called by the main program on a watcher of the given kinds
RunStep(kinds) ==
    \E w \in 1..Len(wobj) :
        /\ wobj[w].tracked \in kinds
        /\ Step(Run(Cur, w), Op("run", << >>, Undef, Undef, w))

\* handle.unwatch() called by the main program on a watcher it created
UnwatchStep ==
    \E w \in 1..Len(wobj) :
        /\ wobj[w].untracked # "cache"
        /\ ~wobj[w].unwatched
        /\ Step(Unwatch(Cur, w), Op("unwatch", << >>, Undef, Undef, w))

\* a queued flush microtask runs
FlushStep ==
    /\ microtasks > 0
    /\ Step(FlushTask([Cur EXCEPT !.microtasks = @ - 1]),
            Op("flush", << >>, RawGet(Cur, Root1, ShadowKey(KisValid)), Undef, 0))

\* the removal timer fires; timers run when no microtask is queued
TimerStep ==
    /\ cleanTimeoutId
    /\ microtasks = 0
    /\ Step(CleanTimeout(Cur), Op("timer", << >>, Undef, Undef, 0))

\* half of the delay passes while the removal timer is armed and not yet due;
\* time passes between tasks, when no microtask is queued
TickStep ==
    /\ cleanTimeoutId
    /\ microtasks = 0
    /\ clock.timer < CleanDelay
    /\ clock' = [timer |-> clock.timer + CleanDelay \div 2, idle |-> clock.idle + CleanDelay \div 2]
    /\ lastOp' = Op("tick", << >>, Undef, Undef, 0)
    /\ log' = << >>
    /\ UNCHANGED << objs, pathWatcherIds, subsSets, wobj, allWatchers, activeWatcher,
                    flushQueue, toRemove, cleanTimeoutId, microtasks, uvars, router, dom >>

\* the removal timer fires when its delay has passed, line 157
TimerDue == clock.timer >= CleanDelay /\ TimerStep

-----------------------------------------------------------------------------
(* The program of the nested and the conditional watchers:                   *)
(* store({a: 0, b: 0, c: 0}), store({a: 0}) and the watchers cond, outer     *)
(* (which creates inner) and two                                             *)

NoVars == [w2 |-> 0, made |-> {}, seen |-> Undef, detached |-> Undef]

\* no router is set up
NoRouter == [routes |-> {}, transition |-> FALSE, hash |-> "", events |-> 0, prevDestroy |-> 0,
             navs |-> << >>, calls |-> << >>, redirects |-> 0, last |-> "none"]

\* the comment node that ends the children of a children function, line 341
endPlaceholder == [rid |-> 0, gen |-> 0]

\* undefined where a node is expected
NoNode == [rid |-> 0 - 1, gen |-> 0]

\* an element el with one children function, before it is mounted: childNodes
\* of el, then oldChildren and oldKeysMap of lines 344-345, the number of
\* runs of the children function, the list its last run resolved, and the
\* lifecycle fields of el
NoDom == [childNodes |-> << endPlaceholder >>, oldChildren |-> << >>, oldKeysMap |-> EmptyMap,
          renders |-> 0, newChildren |-> << >>,
          isMounted |-> FALSE, registeredWatchers |-> << >>, mounts |-> 0]

StoreInit(heap) ==
    /\ objs = heap
    /\ pathWatcherIds = [st \in { o \in DOMAIN heap : heap[o].store = o } |-> EmptyMap]
    /\ subsSets = << >>
    /\ wobj = << >>
    /\ allWatchers = {}
    /\ activeWatcher = 0
    /\ flushQueue = << >>
    /\ toRemove = << >>
    /\ cleanTimeoutId = FALSE
    /\ clock = [timer |-> 0, idle |-> 0]
    /\ microtasks = 0
    /\ uvars = NoVars
    /\ log = << >>
    /\ lastOp = [op |-> "init", path |-> << >>, old |-> Undef, val |-> Undef, w |-> 0,
                 queue0 |-> << >>, subs0 |-> EmptyMap, remove0 |-> << >>, batch |-> 0,
                 queued |-> << >>,
                 thrown |-> FALSE]

InitWith(heap) == StoreInit(heap) /\ router = NoRouter /\ dom = NoDom

Nums == { Num(i) : i \in 0..MaxNum }

Init ==
    InitWith(<< [NewObj([k \in {Ka, Kb} |-> Num(0)], FALSE) EXCEPT !.store = Root1] >>)

WatchNested == WatchStep({"outer"})
WriteNested == WriteStep({ [root |-> Root1, keys |-> << k >>] : k \in {Ka, Kb} }, {"prim"}, Nums)

Next ==
    \/ WatchNested
    \/ WriteNested
    \/ UnwatchStep
    \/ FlushStep
    \/ TimerStep

Spec == Init /\ [][Next]_vars

-----------------------------------------------------------------------------
(* The program of the conditional watcher: store({a: 0, b: 0, c: 0}) and     *)
(* the watcher cond                                                          *)

InitCond ==
    InitWith(<< [NewObj([k \in {Ka, Kb, Kc} |-> Num(0)], FALSE) EXCEPT !.store = Root1] >>)

WatchCond == WatchStep({"cond"})
WriteCond == WriteStep({ [root |-> Root1, keys |-> << k >>] : k \in {Ka, Kb, Kc} }, {"prim"}, Nums)

NextCond ==
    \/ WatchCond
    \/ WriteCond
    \/ UnwatchStep
    \/ FlushStep
    \/ TimerStep

SpecCond == InitCond /\ [][NextCond]_vars

-----------------------------------------------------------------------------
(* The program of the nested run: store({a: 0, b: 0, c: 0}) and the watcher  *)
(* around, which reads a, creates the watcher inner and then reads c         *)

WatchAround == WatchStep({"around"})

NextAround ==
    \/ WatchAround
    \/ WriteCond
    \/ FlushStep
    \/ TimerStep

SpecAround == InitCond /\ [][NextAround]_vars

-----------------------------------------------------------------------------
(* The program of the relay: store({a: 0, b: 0, c: 0}), the watcher parent   *)
(* (which reads a and creates the watcher child, which records b) and the    *)
(* watcher relay, which copies c to b                                        *)

WatchRelay == WatchInOrder(<< "parent", "relay" >>)
RelayReady == uvars.made = {"parent", "relay"}
WriteRelay == RelayReady /\ WriteStep({ [root |-> Root1, keys |-> << k >>] : k \in {Ka, Kc} }, {"prim"}, Nums)

NextRelay ==
    \/ WatchRelay
    \/ WriteRelay
    \/ FlushStep
    \/ TimerStep

SpecRelay == InitCond /\ [][NextRelay]_vars

\* entries of a list of children beyond which the main program stops writing
MaxChildren == MaxNum + 1

-----------------------------------------------------------------------------
(* The program of the explicit runs: store({a: 0, b: 0}), the watcher wA     *)
(* that runs wB while a > 0 and the watcher wB that runs wA while b > 0      *)

WatchMutual == WatchInOrder(<< "runB", "runA" >>)

\* a and b are not positive together (the callbacks would call each other
\* without end), and the writes stop when a list of children is full
MutualReady(k, v) ==
    /\ uvars.made = {"runB", "runA"}
    /\ GreaterThan(v, 0) => ~GreaterThan(RawGet(Cur, Root1, IF k = Ka THEN Kb ELSE Ka), 0)
    /\ \A w \in 1..Len(wobj) : Len(wobj[w].children) < MaxChildren

WriteMutual ==
    \E k \in {Ka, Kb}, v \in Nums :
        /\ MutualReady(k, v)
        /\ WriteStep({ [root |-> Root1, keys |-> << k >>] }, {"prim"}, {v})

NextMutual ==
    \/ WatchMutual
    \/ WriteMutual
    \/ FlushStep

SpecMutual == Init /\ [][NextMutual]_vars

-----------------------------------------------------------------------------
(* The program of the kept children: store({a: 0, b: 0}) and the watcher     *)
(* leaky, which reads a and creates a watcher of b without releasing the     *)
(* one of its last run                                                       *)

WatchLeaky == WatchStep({"leaky"})

\* handle.unwatch() of the main program on the watcher leaky
UnwatchLeaky ==
    \E w \in 1..Len(wobj) :
        /\ wobj[w].tracked = "leaky"
        /\ ~wobj[w].unwatched
        /\ Step(Unwatch(Cur, w), Op("unwatch", << >>, Undef, Undef, w))

NextLeaky ==
    \/ WatchLeaky
    \/ WriteNested
    \/ UnwatchLeaky
    \/ FlushStep
    \/ TimerStep

SpecLeaky == Init /\ [][NextLeaky]_vars

-----------------------------------------------------------------------------
(* The program of the getter: store({val, get isValid() {...}}), a second   *)
(* store({n: 0}), the watcher mixed that reads the field and the getter,    *)
(* the watcher valid that reads the getter only and the watcher both that   *)
(* reads a field of each store                                              *)

GetterRoot ==
    [NewObj([k \in {Kval} |-> Num(0)], FALSE) EXCEPT
        !.store = Root1,
        !.getters = [k \in {KisValid} |-> "isValid"],
        !.getW = [k \in {KisValid} |-> 0]]

InitGetter ==
    InitWith(<< GetterRoot, [NewObj([k \in {Kn} |-> Num(0)], FALSE) EXCEPT !.store = Root2] >>)

WatchGetter == WatchStep({"mixed", "valid"})
WriteGetter == WriteStep({ [root |-> Root1, keys |-> << Kval >>] }, {"prim"}, Nums)

NextGetter ==
    \/ WatchGetter
    \/ WriteGetter
    \/ UnwatchStep
    \/ FlushStep
    \/ TimerStep

SpecGetter == InitGetter /\ [][NextGetter]_vars

\* the batches: writes to both stores, the watchers mixed and both
WatchBatch == WatchStep({"mixed", "both"})
WriteOther == WriteStep({ [root |-> Root2, keys |-> << Kn >>] }, {"prim"}, {Num(0), Num(1)})

NextBatch ==
    \/ WatchBatch
    \/ WriteGetter
    \/ WriteOther
    \/ FlushStep

SpecBatch == InitGetter /\ [][NextBatch]_vars

-----------------------------------------------------------------------------
(* The program of the nested containers: store({a: {b: {c: 0}}, n: 0}), the *)
(* watchers a, full and n, and the watcher detached that reads through a    *)
(* reference to data.a.b taken by the main program                          *)

InitTree ==
    InitWith(<< [NewObj(Put(Put(EmptyMap, Ka, Obj(2)), Kn, Num(0)), FALSE) EXCEPT !.store = Root1],
                NewObj(Put(EmptyMap, Kb, Obj(3)), FALSE),
                NewObj(Put(EmptyMap, Kc, Num(0)), FALSE) >>)

WatchTree == WatchInOrder(<< "full", "a", "n" >>)
\* the writes of the tests come after the watchers are set up
TreeReady == uvars.made = {"full", "detached", "a", "n"}

WriteLeaf == TreeReady /\ WriteStep({ [root |-> Root1, keys |-> << Ka, Kb, Kc >>] }, {"prim"}, {Num(2)})
WriteSibling == TreeReady /\ WriteStep({ [root |-> Root1, keys |-> << Kn >>] }, {"prim"}, {Num(1)})
ReplaceTop == TreeReady /\ WriteStep({ [root |-> Root1, keys |-> << Ka >>] }, {"bc"}, {Num(1)})
ReplaceSub == TreeReady /\ WriteStep({ [root |-> Root1, keys |-> << Ka, Kb >>] }, {"c"}, {Num(1)})

NextTree ==
    \/ WatchTree
    \/ WatchDetachedStep
    \/ WriteLeaf
    \/ WriteSibling
    \/ ReplaceTop
    \/ ReplaceSub
    \/ FlushStep

SpecTree == InitTree /\ [][NextTree]_vars

-----------------------------------------------------------------------------
(* The program of the test of the detached child: store({a: {b: {c: 0}}}),  *)
(* the watcher full and the watcher detached                                *)

WatchFull == WatchInOrder(<< "full" >>)

DetachedReady == uvars.made = {"full", "detached"}

UpdateLeaf == DetachedReady /\ WriteStep({ [root |-> Root1, keys |-> << Ka, Kb, Kc >>] }, {"prim"}, Nums)
Replace == DetachedReady /\ WriteStep({ [root |-> Root1, keys |-> << Ka >>] }, {"bc"}, {Num(1)})
ReplaceChild == DetachedReady /\ WriteStep({ [root |-> Root1, keys |-> << Ka, Kb >>] }, {"c"}, {Num(1)})

NextDetached ==
    \/ WatchFull
    \/ WatchDetachedStep
    \/ UpdateLeaf
    \/ Replace
    \/ ReplaceChild
    \/ FlushStep

SpecDetached == InitTree /\ [][NextDetached]_vars

-----------------------------------------------------------------------------
(* The program of the array: store({count: 0, simple: [0, 1]}) and the      *)
(* watchers count, length and item                                          *)

InitList ==
    InitWith(<< [NewObj(Put(Put(EmptyMap, Kcount, Num(0)), Ksimple, Obj(2)), FALSE)
                    EXCEPT !.store = Root1],
                NewObj(Put(Put(Put(EmptyMap, IndexKey(0), Num(0)), IndexKey(1), Num(1)),
                           Klength, Num(2)), TRUE) >>)

\* the numbers, and the strings and booleans that are loosely equal to them
Written == Nums \cup { Str(0), Bool(TRUE) }

WatchList == WatchInOrder(<< "count", "length", "item" >>)
WriteCount == WriteStep({ [root |-> Root1, keys |-> << Kcount >>] }, {"prim"}, Written)
WriteItem == WriteStep({ [root |-> Root1, keys |-> << Ksimple, IndexKey(0) >>] }, {"prim"}, {Num(0), Num(1)})
WriteLength == WriteStep({ [root |-> Root1, keys |-> << Ksimple, Klength >>] }, {"prim"}, Nums)

NextList ==
    \/ WatchList
    \/ WriteCount
    \/ WriteItem
    \/ WriteLength
    \/ FlushStep

SpecList == InitList /\ [][NextList]_vars

-----------------------------------------------------------------------------
(* The program of the detached child with what the tests do not try: a      *)
(* delete without a replacement before it, a primitive written over data.a, *)
(* and a run of the watcher detached through its handle                     *)

\* the main program goes on until an exception has left the cursor set
StaleReady == DetachedReady /\ activeWatcher = 0

LeafUpdate == StaleReady /\ WriteStep({ [root |-> Root1, keys |-> << Ka, Kb, Kc >>] }, {"prim"}, {Num(2)})
TopReplace == StaleReady /\ Replace
ChildReplace == StaleReady /\ ReplaceChild
DeleteChild == StaleReady /\ DeleteStep({ [root |-> Root1, keys |-> << Ka, Kb >>] })
WritePrimitive == StaleReady /\ WriteStep({ [root |-> Root1, keys |-> << Ka >>] }, {"prim"}, {Num(1)})
RunDetached == StaleReady /\ RunStep({"detached"})

NextStale ==
    \/ WatchFull
    \/ WatchDetachedStep
    \/ LeafUpdate
    \/ TopReplace
    \/ ChildReplace
    \/ DeleteChild
    \/ WritePrimitive
    \/ RunDetached
    \/ FlushStep

SpecStale == InitTree /\ [][NextStale]_vars

-----------------------------------------------------------------------------
(* A program with a watcher that invalidates itself on every run:           *)
(* store({count: 0, n: 0, val: 0}), the watchers count and n, and the       *)
(* watcher loop                                                             *)

InitLoop ==
    InitWith(<< [NewObj([k \in {Kcount, Kn, Kval} |-> Num(0)], FALSE) EXCEPT !.store = Root1] >>)

WatchLoop == WatchInOrder(<< "count", "n", "loop" >>)
LoopReady == uvars.made = {"count", "n", "loop"}
WriteReaders == LoopReady /\ WriteStep({ [root |-> Root1, keys |-> << k >>] : k \in {Kcount, Kn} }, {"prim"}, Nums)

NextLoop ==
    \/ WatchLoop
    \/ WriteReaders
    \/ FlushStep

SpecLoop == InitLoop /\ [][NextLoop]_vars

-----------------------------------------------------------------------------
(* A program with a callback that throws: store({a: 0, b: 0, c: 0}), the    *)
(* watcher a and the watcher fail, which throws when data.b > 0             *)

WatchFail == WatchInOrder(<< "a", "fail" >>)

\* the main program goes on until an exception has left the cursor set
FailReady == uvars.made = {"a", "fail"} /\ activeWatcher = 0

WriteFail == FailReady /\ WriteStep({ [root |-> Root1, keys |-> << k >>] : k \in {Ka, Kb} }, {"prim"}, Nums)
RunFail == FailReady /\ RunStep({"fail"})

NextFail ==
    \/ WatchFail
    \/ WriteFail
    \/ RunFail
    \/ FlushStep

SpecFail == InitCond /\ [][NextFail]_vars

\* the main program goes on after an exception left a flush: the throwing
\* watcher appends itself to its list of children on every later run, and
\* the writes stop when that list is full (MaxChildren)
StuckReady ==
    /\ uvars.made = {"a", "fail"}
    /\ \A w \in 1..Len(wobj) : Len(wobj[w].children) < MaxChildren

WriteStuck == StuckReady /\ WriteStep({ [root |-> Root1, keys |-> << k >>] : k \in {Ka, Kb} }, {"prim"}, Nums)

NextStuck ==
    \/ WatchFail
    \/ WriteStuck
    \/ FlushStep

SpecStuck == InitCond /\ [][NextStuck]_vars

-----------------------------------------------------------------------------
(* The program of the track-only pattern: store({a: 0, b: 0, c: 0}) and a   *)
(* watcher with an untracked callback                                       *)

WatchTrack == WatchWith("pair", "print")
RunTrack == RunStep({"pair"})

NextTrack ==
    \/ WatchTrack
    \/ WriteCond
    \/ RunTrack
    \/ FlushStep

SpecTrack == InitCond /\ [][NextTrack]_vars

-----------------------------------------------------------------------------
(* The program of the deletes: store({a: {b: {c: 0}}, ab: 0}), the watcher  *)
(* full and the watcher ab                                                  *)

InitDelete ==
    InitWith(<< [NewObj(Put(Put(EmptyMap, Ka, Obj(2)), Kab, Num(0)), FALSE) EXCEPT !.store = Root1],
                NewObj(Put(EmptyMap, Kb, Obj(3)), FALSE),
                NewObj(Put(EmptyMap, Kc, Num(0)), FALSE) >>)

WatchDelete == WatchInOrder(<< "full", "ab" >>)

DeleteReady == uvars.made = {"full", "ab"}

DeletePaths ==
    { [root |-> Root1, keys |-> ks] : ks \in { << Ka >>, << Ka, Kb >>, << Ka, Kb, Kc >>, << Kab >> } }

DeleteAny == DeleteReady /\ DeleteAnyStep(DeletePaths)
RestoreTop == DeleteReady /\ WriteStep({ [root |-> Root1, keys |-> << Ka >>] }, {"bc"}, {Num(1)})
RestoreAb == DeleteReady /\ WriteStep({ [root |-> Root1, keys |-> << Kab >>] }, {"prim"}, {Num(1)})

NextDelete ==
    \/ WatchDelete
    \/ DeleteAny
    \/ RestoreTop
    \/ RestoreAb
    \/ FlushStep

SpecDelete == InitDelete /\ [][NextDelete]_vars

-----------------------------------------------------------------------------
(* The program of the releases: store({a: 0, b: 0}), the watcher outer      *)
(* (which creates inner), releases by the main program, and the passing of  *)
(* time                                                                     *)

WriteOuter == WriteStep({ [root |-> Root1, keys |-> << Ka >>] }, {"prim"}, {Num(0), Num(1)})

NextTimer ==
    \/ WatchNested
    \/ WriteOuter
    \/ UnwatchStep
    \/ FlushStep
    \/ TickStep
    \/ TimerDue

SpecTimer == Init /\ [][NextTimer]_vars

-----------------------------------------------------------------------------
(* The program of the direct reads: the store with the getter, the watchers *)
(* mixed and valid, and reads of data.isValid by the main program           *)

ReadGetter == ReadStep({ [root |-> Root1, keys |-> << KisValid >>] })

NextRead ==
    \/ WatchGetter
    \/ WriteGetter
    \/ ReadGetter
    \/ FlushStep

SpecRead == InitGetter /\ [][NextRead]_vars

-----------------------------------------------------------------------------
(* The program of the wrapping: const o = {c: 0} and                        *)
(* store({a: o, b: o, c: [], n: 0, val: new Date(), count: () => 0}), the   *)
(* watchers a and n, reads of every property by the main program            *)

InitWrap ==
    InitWith(<< [NewObj([k \in {Ka, Kb, Kc, Kn, Kval, Kcount} |->
                            CASE k \in {Ka, Kb} -> Obj(2)
                              [] k = Kc -> Obj(3)
                              [] k = Kn -> Num(0)
                              [] k = Kval -> Opaque(0)
                              [] OTHER -> Func(0)], FALSE) EXCEPT !.store = Root1],
                NewObj(Put(EmptyMap, Kc, Num(0)), FALSE),
                NewObj(Put(EmptyMap, Klength, Num(0)), TRUE) >>)

WatchWrap == WatchStep({"a", "n"})
ReadWrap == ReadStep({ [root |-> Root1, keys |-> << k >>] : k \in {Ka, Kb, Kc, Kn, Kval, Kcount} })
WriteWrap == WriteStep({ [root |-> Root1, keys |-> << Ka >>] }, {"c"}, {Num(1)})
WritePlain == WriteStep({ [root |-> Root1, keys |-> << Kn >>] }, {"prim"}, {Num(0), Num(1)})

NextWrap ==
    \/ WatchWrap
    \/ ReadWrap
    \/ WriteWrap
    \/ WritePlain
    \/ FlushStep

SpecWrap == InitWrap /\ [][NextWrap]_vars

-----------------------------------------------------------------------------
(* The program of the moved items: store({a: [{c: 0}, {c: 1}]}), the        *)
(* watchers first and second, and data.a.unshift(0), data.a.shift(),        *)
(* data.a.splice(i, 0, 0), data.a.splice(i, 1), and either a swap of        *)
(* data.a[i] and data.a[j] or data.a[j] = data.a[i], each once and in any   *)
(* order, and data.a[i].c = v in the main program                           *)

InitShift ==
    InitWith(<< [NewObj(Put(EmptyMap, Ka, Obj(2)), FALSE) EXCEPT !.store = Root1],
                NewObj(Put(Put(Put(EmptyMap, IndexKey(0), Obj(3)), IndexKey(1), Obj(4)),
                           Klength, Num(2)), TRUE),
                NewObj(Put(EmptyMap, Kc, Num(0)), FALSE),
                NewObj(Put(EmptyMap, Kc, Num(1)), FALSE) >>)

\* the indexes the main program uses are below MaxLen
MaxLen == MaxNum + 1

LenOf(m, o) == m.objs[o].f[Klength].v

\* the main program has registered its watchers
ShiftReady == {"first", "second"} \subseteq uvars.made

\* the statement named tag of the main program is executed now, once
Once(m, tag) == [m EXCEPT !.uvars.made = @ \cup {tag}]

\* the item inserted is the number 0
InsertStep(n, starts, name, tag) ==
    \E start \in starts :
        /\ ShiftReady
        /\ tag \notin uvars.made
        /\ microtasks < MaxMicro
        /\ start <= LenOf(n.m, n.obj)
        /\ Step(InsertAt(Once(n.m, tag), n.obj, start, Num(0)),
                Op(name, << Root1, Join(<< Ka >>) >>, Num(start), Num(0), 0))

RemoveStep(n, starts, name, tag) ==
    \E start \in starts :
        /\ ShiftReady
        /\ tag \notin uvars.made
        /\ microtasks < MaxMicro
        /\ start < LenOf(n.m, n.obj)
        /\ Step(RemoveAt(Once(n.m, tag), n.obj, start),
                Op(name, << Root1, Join(<< Ka >>) >>, Num(start), Undef, 0))

UnshiftStep == InsertStep(Navigate(Cur, Root1, << Ka >>), {0}, "unshift", "unshift")
ShiftStep == RemoveStep(Navigate(Cur, Root1, << Ka >>), {0}, "shift", "shift")
SpliceInStep == InsertStep(Navigate(Cur, Root1, << Ka >>), 1..MaxLen, "splice", "spliceIn")
SpliceOutStep == RemoveStep(Navigate(Cur, Root1, << Ka >>), 1..MaxLen, "splice", "spliceOut")

SwapBoth(g, h, n, i, j) ==
    /\ g.val.t = "proxy" \/ h.val.t = "proxy"
    /\ Step(SetTrap(SetTrap(Once(h.m, "swap"), n.obj, IndexKey(i), h.val),
                    n.obj, IndexKey(j), g.val),
            Op("assign", << Root1, Join(<< Ka >>) >>, Num(i), Num(j), 0))

SwapSecond(g, n, i, j) == SwapBoth(g, GetTrap(g.m, n.obj, IndexKey(j)), n, i, j)

\* [data.a[i], data.a[j]] = [data.a[j], data.a[i]], one of them a wrapped item
SwapItems(n) ==
    \E i, j \in 0..MaxLen :
        /\ ShiftReady
        /\ uvars.made \cap {"swap", "copy"} = {}
        /\ microtasks < MaxMicro
        /\ i < j
        /\ j < LenOf(n.m, n.obj)
        /\ SwapSecond(GetTrap(n.m, n.obj, IndexKey(i)), n, i, j)

SwapStep == SwapItems(Navigate(Cur, Root1, << Ka >>))

CopyFrom(g, n, i, j) ==
    /\ g.val.t = "proxy"
    /\ Step(SetTrap(Once(g.m, "copy"), n.obj, IndexKey(j), g.val),
            Op("copy", << Root1, Join(<< Ka >>) >>, Num(i), Num(j), 0))

\* data.a[j] = data.a[i] of a wrapped item, which is then stored twice
CopyItem(n) ==
    \E i, j \in 0..MaxLen :
        /\ ShiftReady
        /\ uvars.made \cap {"swap", "copy"} = {}
        /\ microtasks < MaxMicro
        /\ i # j
        /\ i < LenOf(n.m, n.obj)
        /\ j < LenOf(n.m, n.obj)
        /\ CopyFrom(GetTrap(n.m, n.obj, IndexKey(i)), n, i, j)

CopyStep == CopyItem(Navigate(Cur, Root1, << Ka >>))

WatchShift == WatchInOrder(<< "first", "second" >>)

WriteElem ==
    /\ ShiftReady
    /\ WriteStep({ [root |-> Root1, keys |-> << Ka, IndexKey(i), Kc >>] : i \in 0..MaxLen },
                 {"prim"}, {Num(MaxNum)})

NextShift ==
    \/ WatchShift
    \/ UnshiftStep
    \/ ShiftStep
    \/ SpliceInStep
    \/ SpliceOutStep
    \/ SwapStep
    \/ CopyStep
    \/ WriteElem
    \/ FlushStep

SpecShift == InitShift /\ [][NextShift]_vars

-----------------------------------------------------------------------------
(* The router, router.js 40-134. router.hash is window.location.hash,       *)
(* router.events the hashchange events that are queued, router.navs the     *)
(* calls of navigate that wait (for the view transition to call them, for   *)
(* the promise of the destroy function or for the promise of the handler),  *)
(* router.calls the calls of route handlers made so far, with the number of *)
(* times the destroy function each one returned was invoked                 *)

\* options.fallbackPath, line 40
fallbackPath == "#/"

\* the routes of the user program: "#/" returns nothing, "#/a" returns a
\* destroy function, the handler of "#/f" throws
AllRoutes == {"#/", "#/a", "#/f"}

\* the hashes the user navigates to; "#/x" has no route
Hashes == AllRoutes \cup {"#/x"}

ReturnsDestroy(route) == route = "#/a"
Throws(route) == route = "#/f"

\* lines 80-109: the pattern of the first route that matches, "none" if none
findActiveRoute(r, path) == IF path \in r.routes THEN path ELSE "none"

\* window.location.hash = v: a hashchange event is queued when the hash changes
SetLocation(r, v) ==
    IF v = r.hash THEN r ELSE [r EXCEPT !.hash = v, !.events = @ + 1]

Waiting(route, pc, call) == [route |-> route, pc |-> pc, call |-> call]

\* line 62, after the await: prevDestroy = the value the handler returned
AssignDestroy(r, route, call) ==
    [r EXCEPT !.prevDestroy = IF ReturnsDestroy(route) THEN call ELSE 0]

\* line 62: route.handler(route) is called; later: its promise is still
\* pending when the task ends. Lines 63-65 when it throws.
CallHandler(r, route, later) ==
    IF Throws(route) THEN r
    ELSE IF later
    THEN [r EXCEPT !.calls = Append(@, [route |-> route, destroyed |-> 0]),
                   !.navs = Append(@, Waiting(route, "handler", Len(r.calls) + 1))]
    ELSE AssignDestroy([r EXCEPT !.calls = Append(@, [route |-> route, destroyed |-> 0])],
                       route, Len(r.calls) + 1)

\* line 61: prevDestroy?.(); the invocations are counted up to 2
CallDestroy(r) ==
    IF r.prevDestroy = 0 THEN r
    ELSE [r EXCEPT !.calls[r.prevDestroy].destroyed = IF @ < 2 THEN @ + 1 ELSE @]

\* lines 59-66; dLater: the promise of the destroy function is still pending
\* when the task ends
navigate(r, route, dLater, hLater) ==
    IF dLater /\ r.prevDestroy # 0
    THEN [CallDestroy(r) EXCEPT !.navs = Append(@, Waiting(route, "destroy", 0))]
    ELSE CallHandler(CallDestroy(r), route, hLater)

\* a faulty variant: a missing route always redirects
onHashChangeAlways(r, dLater, hLater) ==
    IF findActiveRoute(r, r.hash) = "none"
    THEN [SetLocation(r, fallbackPath) EXCEPT !.last = "redirect", !.redirects = @ + 1]
    ELSE IF r.transition
    THEN [r EXCEPT !.navs = Append(@, Waiting(r.hash, "start", 0)), !.last = "navigate"]
    ELSE [navigate(r, r.hash, dLater, hLater) EXCEPT !.last = "navigate"]

\* lines 45-73
onHashChange(r, dLater, hLater) ==
    IF findActiveRoute(r, r.hash) = "none"
    THEN IF fallbackPath # r.hash
         THEN [SetLocation(r, fallbackPath) EXCEPT !.last = "redirect", !.redirects = @ + 1]
         ELSE [r EXCEPT !.last = "warn"]
    ELSE IF r.transition
    THEN [r EXCEPT !.navs = Append(@, Waiting(r.hash, "start", 0)), !.last = "navigate"]
    ELSE [navigate(r, r.hash, dLater, hLater) EXCEPT !.last = "navigate"]

\* handler calls, waiting navigations and queued events of one behaviour
MaxCalls == MaxNum + 1
MaxNavs == MaxNum - 1
MaxEvents == MaxMicro

StoreIdle ==
    UNCHANGED << objs, pathWatcherIds, subsSets, wobj, allWatchers, activeWatcher,
                 flushQueue, toRemove, cleanTimeoutId, clock, microtasks, uvars, log, lastOp >>

\* router(routes) has returned: the listener is added and onHashChange() was
\* called once (line 77) with the hash the page was opened with
InitRouter ==
    /\ StoreInit(<< [NewObj([k \in {Ka} |-> Num(0)], FALSE) EXCEPT !.store = Root1] >>)
    /\ dom = NoDom
    /\ \E routes \in {AllRoutes, AllRoutes \ {fallbackPath}}, tr, hLater \in BOOLEAN, h \in Hashes :
          router = onHashChange([NoRouter EXCEPT !.routes = routes, !.transition = tr,
                                                 !.hash = h],
                                FALSE, hLater)

\* the user navigates: the hash is set to another value
SetHash ==
    /\ \E h \in Hashes :
          /\ h # router.hash
          /\ router.events < MaxEvents
          /\ router' = [SetLocation(router, h) EXCEPT !.redirects = 0, !.last = "set"]
    /\ StoreIdle
    /\ UNCHANGED dom

\* a queued hashchange event is dispatched (and the call of line 76)
HashEvent ==
    /\ router.events > 0
    /\ \E dLater, hLater \in BOOLEAN :
          /\ Len(router.calls) < MaxCalls
          /\ router' = onHashChange([router EXCEPT !.events = @ - 1], dLater, hLater)
          /\ Len(router'.navs) <= MaxNavs
    /\ StoreIdle
    /\ UNCHANGED dom

Settled(r, i) ==
    [r EXCEPT !.navs = SubSeq(@, 1, i - 1) \o SubSeq(@, i + 1, Len(@)), !.last = "resume"]

\* a waiting call of navigate goes on: the view transition calls it (in the
\* order of the startViewTransition calls), or the promise it awaits settles
Resume ==
    /\ \E i \in DOMAIN router.navs, dLater, hLater \in BOOLEAN :
          /\ Len(router.calls) < MaxCalls
          /\ router.navs[i].pc = "start" =>
                \A j \in 1..(i - 1) : router.navs[j].pc # "start"
          /\ router' =
                CASE router.navs[i].pc = "start" ->
                       navigate(Settled(router, i), router.navs[i].route, dLater, hLater)
                  [] router.navs[i].pc = "destroy" ->
                       CallHandler(Settled(router, i), router.navs[i].route, hLater)
                  [] OTHER ->
                       AssignDestroy(Settled(router, i), router.navs[i].route, router.navs[i].call)
          /\ Len(router'.navs) <= MaxNavs
    /\ StoreIdle
    /\ UNCHANGED dom

NextRouter ==
    \/ SetHash
    \/ HashEvent
    \/ Resume

SpecRouter == InitRouter /\ [][NextRouter]_vars

-----------------------------------------------------------------------------
(* The children function watcher, router.js 340-474, with lists of nodes    *)
(* that all have an rid. A node is [rid, gen]: gen is the run of the        *)
(* children function that created it. Indexes are 0-based as in the source; *)
(* a[i] of the source is a[i + 1] here.                                     *)

Without(s, x) == SelectSeq(s, LAMBDA y : y # x)

PosIn(s, x) == CHOOSE i \in 1..Len(s) : s[i] = x

Spliced(s, i, x) == SubSeq(s, 1, i - 1) \o << x >> \o SubSeq(s, i, Len(s))

\* el.insertBefore(node, child) on the childNodes kids; child undefined appends
insertBefore(kids, node, child) ==
    IF child = NoNode THEN Append(Without(kids, node), node)
    ELSE IF child = node \/ child \notin SeqToSet(kids) THEN kids
    ELSE Spliced(Without(kids, node), PosIn(Without(kids, node), child), node)

\* prev.after(child)
after(kids, prev, child) ==
    IF prev \notin SeqToSet(kids) \/ prev = child THEN kids
    ELSE Spliced(Without(kids, child), PosIn(Without(kids, child), prev) + 1, child)

\* ref.before(child)
before(kids, ref, child) ==
    IF ref \notin SeqToSet(kids) \/ ref = child THEN kids
    ELSE Spliced(Without(kids, child), PosIn(Without(kids, child), ref), child)

\* lines 492-501: the binary search over ends
RECURSIVE LisSearch(_, _, _, _, _)
LisSearch(arr, ends, current, low, high) ==
    IF low >= high THEN low
    ELSE IF arr[ends[(low + high) \div 2 + 1] + 1] >= current
    THEN LisSearch(arr, ends, current, low, (low + high) \div 2)
    ELSE LisSearch(arr, ends, current, (low + high) \div 2 + 1, high)

\* lines 503-507 for the index i and the position low
LisPut(st, i, low) ==
    [ends |-> IF low < Len(st.ends) THEN [st.ends EXCEPT ![low + 1] = i]
              ELSE Append(st.ends, i),
     predecessors |-> Append(st.predecessors, IF low > 0 THEN st.ends[low] ELSE 0 - 1)]

\* lines 487-508
RECURSIVE LisScan(_, _, _)
LisScan(arr, st, i) ==
    IF i >= Len(arr) THEN st
    ELSE LisScan(arr, LisPut(st, i, LisSearch(arr, st.ends, arr[i + 1], 0, Len(st.ends))), i + 1)

\* lines 512-516
RECURSIVE LisBack(_, _, _)
LisBack(arr, predecessors, lastIdx) ==
    IF lastIdx < 0 THEN {}
    ELSE {arr[lastIdx + 1]} \cup LisBack(arr, predecessors, predecessors[lastIdx + 1])

LisResult(arr, st) ==
    LisBack(arr, st.predecessors, IF st.ends = << >> THEN 0 - 1 ELSE st.ends[Len(st.ends)])

\* a faulty variant: every reused child is taken to be in order
getLongestSubsequenceAll(arr) == SeqToSet(arr)

\* lines 483-519
getLongestSubsequence(arr) ==
    LisResult(arr, LisScan(arr, [ends |-> << >>, predecessors |-> << >>], 0))

\* lines 521-534
arrayMove(arr, from, to) ==
    IF from = to THEN arr
    ELSE [i \in 1..Len(arr) |->
            IF i = to + 1 THEN arr[from + 1]
            ELSE IF from < to /\ i >= from + 1 /\ i < to + 1 THEN arr[i + 1]
            ELSE IF from > to /\ i > to + 1 /\ i <= from + 1 THEN arr[i - 1]
            ELSE arr[i]]

\* the node that t.li({rid}) makes in the run after d.renders runs
Made(d, rid) == [rid |-> rid, gen |-> d.renders + 1]

\* lines 393-407: the old child with the rid when there is one
Resolved(d, rid) ==
    IF rid \in DOMAIN d.oldKeysMap THEN d.oldChildren[d.oldKeysMap[rid] + 1] ELSE Made(d, rid)

ResolvedAll(d, rids) == [i \in 1..Len(rids) |-> Resolved(d, rids[i])]

\* lines 387-414: orderedActiveOldIndexes
RECURSIVE ActiveOld(_, _)
ActiveOld(d, rids) ==
    IF rids = << >> THEN << >>
    ELSE (IF Head(rids) \in DOMAIN d.oldKeysMap THEN << d.oldKeysMap[Head(rids)] >> ELSE << >>)
         \o ActiveOld(d, Tail(rids))

\* lines 409-412: toInsert
RECURSIVE ToInsert(_, _, _)
ToInsert(d, rids, i) ==
    IF i > Len(rids) THEN << >>
    ELSE (IF rids[i] \in DOMAIN d.oldKeysMap THEN << >>
          ELSE << [child |-> Made(d, rids[i]),
                   prev |-> IF i = 1 THEN NoNode ELSE Resolved(d, rids[i - 1])] >>)
         \o ToInsert(d, rids, i + 1)

\* lines 420-431: toMove
RECURSIVE ToMove(_, _, _, _)
ToMove(d, active, ok, i) ==
    IF i > Len(active) THEN << >>
    ELSE (IF active[i] \in ok THEN << >>
          ELSE << [child |-> d.oldChildren[active[i] + 1], currentPos |-> active[i],
                   targetPos |-> i - 1] >>)
         \o ToMove(d, active, ok, i + 1)

\* lines 434-438
RECURSIVE MoveAll(_, _)
MoveAll(d, toMove) ==
    IF toMove = << >> THEN d
    ELSE MoveAll([d EXCEPT
                    !.oldChildren = arrayMove(@, Head(toMove).currentPos, Head(toMove).targetPos),
                    !.childNodes = insertBefore(@, Head(toMove).child,
                                                d.oldChildren[Head(toMove).targetPos + 1])],
                 Tail(toMove))

\* lines 441-447
RECURSIVE InsertAll(_, _)
InsertAll(d, toInsert) ==
    IF toInsert = << >> THEN d
    ELSE InsertAll([d EXCEPT
                      !.childNodes =
                          IF Head(toInsert).prev # NoNode
                          THEN after(@, Head(toInsert).prev, Head(toInsert).child)
                          ELSE before(@, IF d.oldChildren # << >> THEN d.oldChildren[1]
                                         ELSE endPlaceholder,
                                      Head(toInsert).child)],
                   Tail(toInsert))

\* lines 450-454
RemoveMissing(d, reused) ==
    [d EXCEPT !.childNodes = SelectSeq(@, LAMBDA n : n \notin SeqToSet(d.oldChildren) \/ n \in reused)]

KeysOf(rids) == [r \in SeqToSet(rids) |-> PosIn(rids, r) - 1]

\* lines 456-457
Renewed(d, newChildren, rids) ==
    [d EXCEPT !.oldChildren = newChildren, !.oldKeysMap = KeysOf(rids),
              !.newChildren = newChildren, !.renders = @ + 1]

\* lines 367-385: no previous children
FirstChildren(d, rids) ==
    Renewed([d EXCEPT !.childNodes =
                 SubSeq(@, 1, PosIn(@, endPlaceholder) - 1)
                 \o [i \in 1..Len(rids) |-> Made(d, rids[i])]
                 \o SubSeq(@, PosIn(@, endPlaceholder), Len(@))],
            [i \in 1..Len(rids) |-> Made(d, rids[i])], rids)

Reordered(d, rids, active) ==
    RemoveMissing(InsertAll(MoveAll(d, ToMove(d, active, getLongestSubsequence(active), 1)),
                            ToInsert(d, rids, 1)),
                  { d.oldChildren[active[i] + 1] : i \in 1..Len(active) })

\* lines 356-465: the watched function, when childrenFunc returns nodes with
\* the rids given
ChildrenFunc(d, rids) ==
    IF d.oldChildren = << >> THEN FirstChildren(d, rids)
    ELSE Renewed(Reordered(d, rids, ActiveOld(d, rids)), ResolvedAll(d, rids), rids)

\* the rids of the items: 1..MaxNum + 1
Rids == 1..(MaxNum + 1)

\* the lists without duplicates
RidLists ==
    { l \in UNION { [1..n -> Rids] : n \in 0..(MaxNum + 1) } :
        \A i, j \in DOMAIN l : i # j => l[i] # l[j] }

\* runs of the children function in one behaviour
MaxRenders == MaxNum + 1

InitChildren ==
    /\ StoreInit(<< [NewObj([k \in {Ka} |-> Num(0)], FALSE) EXCEPT !.store = Root1] >>)
    /\ router = NoRouter
    /\ dom = NoDom

\* the list has changed and the watcher of the children function runs
Render ==
    /\ dom.renders < MaxRenders
    /\ \E rids \in RidLists : dom' = ChildrenFunc(dom, rids)
    /\ StoreIdle
    /\ UNCHANGED router

SpecChildren == InitChildren /\ [][Render]_vars

-----------------------------------------------------------------------------
(* The element of the reactive attributes: store({a: 0, n: 0}) and          *)
(* t.div({textContent: () => data.a, className: () => data.n}), inserted    *)
(* into the document and removed from it                                    *)

\* el[watchFuncsSym]: the reactive attribute and children functions of the
\* element, in the order tag() and setChildren() pushed them
watchFuncs == << "a", "n" >>

\* lines 279-284: el[registeredWatchersSym].push(watch(fn)) for every fn
RECURSIVE WatchFuncs(_, _, _)
WatchFuncsNext(w, fns, regs) == WatchFuncs(w.m, Tail(fns), Append(regs, w.id))

WatchFuncs(m, fns, regs) ==
    IF fns = << >> THEN [m |-> m, regs |-> regs]
    ELSE WatchFuncsNext(Watch(m, Head(fns), "none", NoEnv), fns, regs)

Mounted(r, d) == [m |-> r.m, dom |-> [d EXCEPT !.isMounted = TRUE, !.registeredWatchers = r.regs]]

\* a faulty variant: a mount notification registers the functions even when
\* the element is mounted
onmountAlways(m, d) == Mounted(WatchFuncs(m, watchFuncs, d.registeredWatchers), d)

\* el.onmount, lines 272-287
onmount(m, d) ==
    IF d.isMounted THEN [m |-> m, dom |-> d]
    ELSE Mounted(WatchFuncs(m, watchFuncs, d.registeredWatchers), d)

\* lines 297-301: w.unwatch() for every registered watcher
RECURSIVE UnwatchAll(_, _)
UnwatchAll(m, regs) ==
    IF regs = << >> THEN m ELSE UnwatchAll(Unwatch(m, Head(regs)), Tail(regs))

\* el.onunmount, lines 290-312
onunmount(m, d) ==
    IF ~d.isMounted THEN [m |-> m, dom |-> d]
    ELSE [m |-> UnwatchAll(m, d.registeredWatchers),
          dom |-> [d EXCEPT !.isMounted = FALSE, !.registeredWatchers = << >>]]

\* mount notifications in one behaviour
MaxMounts == MaxNum + 1

InitMount ==
    /\ StoreInit(<< [NewObj([k \in {Ka, Kn} |-> Num(0)], FALSE) EXCEPT !.store = Root1] >>)
    /\ router = NoRouter
    /\ dom = NoDom

\* the handler of the record r of the store and the element
ElementStep(r, op) ==
    /\ StoreStep(r.m, op)
    /\ dom' = [r.dom EXCEPT !.mounts = IF op.op = "mount" THEN @ + 1 ELSE @]
    /\ UNCHANGED router

\* the mutation observer reports the element among the added nodes
MountStep ==
    /\ dom.mounts < MaxMounts
    /\ activeWatcher = 0
    /\ ElementStep(onmount(Cur, dom), Op("mount", << >>, Bool(dom.isMounted), Undef, Len(wobj) + 1))

\* the mutation observer reports the element among the removed nodes
UnmountStep ==
    /\ dom.mounts > 0
    /\ activeWatcher = 0
    /\ ElementStep(onunmount(Cur, dom), Op("unmount", << >>, Bool(dom.isMounted), Undef, 0))

WriteMount == WriteStep({ [root |-> Root1, keys |-> << k >>] : k \in {Ka, Kn} }, {"prim"}, Nums)

NextMount ==
    \/ MountStep
    \/ UnmountStep
    \/ WriteMount
    \/ FlushStep
    \/ TickStep
    \/ TimerDue

SpecMount == InitMount /\ [][NextMount]_vars

-----------------------------------------------------------------------------
(* The program of the registrations: the store with the getter, the watcher *)
(* nest (which creates a watcher of the getter) and the watcher mixed       *)

WatchNest == WatchStep({"nest", "mixed"})

NextNest ==
    \/ WatchNest
    \/ WriteGetter
    \/ FlushStep

SpecNest == InitGetter /\ [][NextNest]_vars

-----------------------------------------------------------------------------
(* Vocabulary of the properties *)

Watchers == 1..Len(wobj)

\* the paths <<store, path>> under which watcher w is subscribed
SubscribedPaths(w) ==
    { sp \in UNION { { << st, p >> : p \in DOMAIN pathWatcherIds[st] } : st \in DOMAIN pathWatcherIds } :
        w \in SeqToSet(subsSets[pathWatcherIds[sp[1]][sp[2]]]) }

FlushRan(w) == \E i \in DOMAIN log : log[i].e = "flush" /\ log[i].w = w

TimesFlushRan(w) == Cardinality({ i \in DOMAIN log : log[i].e = "flush" /\ log[i].w = w })

Ran(w) == \E i \in DOMAIN log : log[i].w = w

Pending0 == SeqToSet(lastOp.queue0)

\* w was created (first run) inside a run of anc, directly or not
RECURSIVE IsDescendant(_, _)
IsDescendant(w, anc) ==
    /\ wobj[w].firstParent # 0
    /\ \/ wobj[w].firstParent = anc
       \/ IsDescendant(wobj[w].firstParent, anc)

InvalidatingWrite == lastOp.op = "write" /\ ~LooseEq(lastOp.old, lastOp.val)

\* the internal watcher that caches the getter isValid, 0 when there is none
GetWatcher == IF KisValid \in DOMAIN objs[Root1].getW THEN objs[Root1].getW[KisValid] ELSE 0

\* the cached value of the getter
Cached == RawGet(Cur, Root1, ShadowKey(KisValid))

\* the watchers that were subscribed to the cached value when the flush began
Dependents0 ==
    IF Root1 \in DOMAIN lastOp.subs0 /\ ShadowKey(KisValid) \in DOMAIN lastOp.subs0[Root1]
    THEN SeqToSet(lastOp.subs0[Root1][ShadowKey(KisValid)])
    ELSE {}

\* what the getter body derives from the value now stored in val
Derived == Bool(Truthy(RawGet(Cur, Root1, Kval)) /\ GreaterThan(RawGet(Cur, Root1, Kval), 1))

GetterCalledBy(w) == \E i \in DOMAIN log : log[i].e = "get" /\ log[i].w = w

LastFlushRun(w) == CHOOSE i \in DOMAIN log :
    /\ log[i].e = "flush" /\ log[i].w = w
    /\ \A j \in DOMAIN log : (log[j].e = "flush" /\ log[j].w = w) => j <= i

Live(w) == w \in allWatchers /\ ~wobj[w].unwatched

\* how many times the last handler added w to the pending set
TimesQueued(w) == Cardinality({ i \in DOMAIN lastOp.queued : lastOp.queued[i] = w })

\* the watchers subscribed under the path of a store
SubscribersOf(sp) ==
    IF sp[1] \in DOMAIN pathWatcherIds /\ sp[2] \in DOMAIN pathWatcherIds[sp[1]]
    THEN SeqToSet(subsSets[pathWatcherIds[sp[1]][sp[2]]])
    ELSE {}

Queued == SeqToSet(lastOp.queued)

\* w is subscribed under the path sp or under a path below it
DependsUnder(w, sp) ==
    \E q \in SubscribedPaths(w) :
        /\ q[1] = sp[1]
        /\ (q[2] = sp[2] \/ StartsWith(q[2], sp[2] \o << pathSeparator >>))

\* the last handler wrote a plain container over a wrapped one
ContainerReplaced ==
    lastOp.op = "write" /\ lastOp.val.t = "obj" /\ lastOp.old.t = "proxy"

LeafPath == << Root1, Join(<< Ka, Kb, Kc >>) >>

\* the value now stored at keys below the raw object o
RECURSIVE RawWalk(_, _)
RawWalk(o, keys) ==
    IF Len(keys) = 1 THEN RawGet(Cur, o, keys[1])
    ELSE IF IsRef(RawGet(Cur, o, keys[1])) THEN RawWalk(RawGet(Cur, o, keys[1]).v, Tail(keys))
    ELSE Undef

LiveLeaf == RawWalk(Root1, << Ka, Kb, Kc >>)

\* the watchers that read through a captured reference
DetachedWatchers == { w \in Watchers : wobj[w].tracked = "detached" }

Captured(w) == wobj[w].env.obj

\* a container above the captured one was replaced, the captured one was not
AncestorReplaced(o) == IsDetached(Cur, o) /\ ~objs[o].detached

-----------------------------------------------------------------------------
(* C1 (SpecBatch).  Batching as the claim states it: no observer is run by  *)
(* a write, and the flush that follows runs an observer at most once.       *)
C1_Original ==
    /\ lastOp.op = "write" => log = << >>
    /\ lastOp.op = "flush" => \A w \in Watchers : TimesFlushRan(w) <= 1

(* C1 amended. No observer is run by a write, whatever the number of writes *)
(* since the last flush; the flush runs an observer at most once, and once  *)
(* more for each time a write made by a callback during that flush (the     *)
(* caching observer storing a new derived value) invalidates it again.      *)
C1_Batching ==
    /\ lastOp.op = "write" => log = << >>
    /\ lastOp.op = "flush" =>
          \A w \in Watchers : TimesFlushRan(w) <= 1 + TimesQueued(w)

\* two or more invalidating writes were flushed at once and their observer
\* was run once
C1_Witness ==
    /\ lastOp.op = "flush"
    /\ lastOp.batch >= 2
    /\ \E w \in Watchers :
          /\ w \in Pending0
          /\ wobj[w].tracked = "both"
          /\ { sp[1] : sp \in SubscribedPaths(w) } = {Root1, Root2}
          /\ TimesFlushRan(w) = 1

-----------------------------------------------------------------------------
(* C6 (SpecList). No-op on unchanged value: a write of a value loosely      *)
(* equal to the value stored at the path adds no observer to the pending    *)
(* set, unless the key is the length of the array; a write to length, and   *)
(* a write of a value that is not loosely equal, add exactly the observers  *)
(* subscribed under the path, each once.                                    *)
C6_NoOpOnUnchanged ==
    lastOp.op = "write" =>
        IF LooseEq(lastOp.old, lastOp.val) /\ lastOp.path[2] # Join(<< Ksimple, Klength >>)
        THEN lastOp.queued = << >>
        ELSE /\ Queued = SubscribersOf(lastOp.path)
             /\ Len(lastOp.queued) = Cardinality(Queued)

\* a string or boolean was written over the number it is loosely equal to
\* and the observer of the path was left alone
C6_Witness ==
    /\ lastOp.op = "write"
    /\ lastOp.old # lastOp.val
    /\ LooseEq(lastOp.old, lastOp.val)
    /\ SubscribersOf(lastOp.path) # {}
    /\ lastOp.queued = << >>

-----------------------------------------------------------------------------
(* C7 (SpecGetter). Getter caching: in a flush that runs the internal       *)
(* caching observer the getter is invoked again; when the derived value is  *)
(* the one already cached, the flush invalidates no observer, so an         *)
(* observer that depends on the computed property and was not itself        *)
(* pending is not run; when the derived value differs, every registered,    *)
(* not released observer that was subscribed to the computed property is    *)
(* run by that flush.                                                       *)
C7_GetterCaching ==
    (lastOp.op = "flush" /\ GetWatcher # 0 /\ FlushRan(GetWatcher)) =>
        /\ GetterCalledBy(GetWatcher)
        /\ IF Cached = lastOp.old
           THEN /\ lastOp.queued = << >>
                /\ \A w \in Dependents0 \ Pending0 : ~FlushRan(w)
           ELSE \A w \in Dependents0 : Live(w) => FlushRan(w)

\* the dependency changed, the getter was derived again with the same result
\* and a live observer of the computed property was left alone
C7_Witness ==
    /\ lastOp.op = "flush"
    /\ GetWatcher # 0
    /\ FlushRan(GetWatcher)
    /\ GetterCalledBy(GetWatcher)
    /\ Cached = lastOp.old
    /\ \E w \in Dependents0 : Live(w) /\ wobj[w].tracked = "valid" /\ ~FlushRan(w)

-----------------------------------------------------------------------------
-----------------------------------------------------------------------------
(* C2 (SpecCond). Conditional dependency re-tracking: in every state every  *)
(* registered observer is subscribed under exactly the paths its tracked    *)
(* callback read in its most recent run, and a write that changes the value *)
(* at a path invalidates exactly the registered observers whose most recent *)
(* run read that path, so a path read only in an earlier run does not fire. *)
C2_SubscribedIsLastRead ==
    /\ \A w \in allWatchers : SubscribedPaths(w) = wobj[w].reads
    /\ InvalidatingWrite =>
          SeqToSet(lastOp.queued) = { w \in allWatchers : lastOp.path \in wobj[w].reads }

\* the observer has taken both branches: it read c in an earlier run, reads b
\* now, and c has then been written without invalidating it
C2_Witness ==
    /\ InvalidatingWrite
    /\ lastOp.path = << Root1, Kc >>
    /\ lastOp.queued = << >>
    /\ \E w \in allWatchers :
          /\ wobj[w].reads = { << Root1, Ka >>, << Root1, Kb >> }
          /\ Cardinality(wobj[w].pathsSubs) = 3

-----------------------------------------------------------------------------
-----------------------------------------------------------------------------
(* C4 (Spec). Unwatch finality: once the removal pass has processed the     *)
(* release of an observer, no handler runs that observer or any observer    *)
(* created inside its runs, and no write invalidates one of them.           *)
Gone(w) == \E anc \in Watchers : wobj[anc].expired /\ (w = anc \/ IsDescendant(w, anc))

C4_UnwatchFinality ==
    \A w \in Watchers : Gone(w) => (~Ran(w) /\ w \notin SeqToSet(lastOp.queued))

\* a released and removed parent has a child, and a path the child read is
\* written with a new value
C4_Witness ==
    /\ InvalidatingWrite
    /\ \E w \in Watchers :
          /\ Gone(w)
          /\ wobj[w].firstParent # 0
          /\ ~wobj[w].unwatched
          /\ lastOp.path \in wobj[w].reads

-----------------------------------------------------------------------------
(* C5 (Spec). Release takes effect before the timer fires: no handler runs  *)
(* an observer that is released at that moment, also when it was pending    *)
(* before its release; the release itself only sets the flag, queues the id *)
(* for removal and arms the timer, the observer stays registered and        *)
(* subscribed.                                                              *)
C5_ReleasedNeverRun ==
    /\ \A i \in DOMAIN log : ~log[i].rel
    /\ lastOp.op = "unwatch" =>
          /\ wobj[lastOp.w].unwatched
          /\ cleanTimeoutId
          /\ lastOp.w \in SeqToSet(toRemove)
          /\ lastOp.w \in allWatchers => SubscribedPaths(lastOp.w) = wobj[lastOp.w].reads

\* a flush whose pending set held a released, still registered observer
C5_Witness ==
    /\ lastOp.op = "flush"
    /\ \E w \in Pending0 :
          /\ wobj[w].unwatched
          /\ w \in allWatchers
          /\ w \in SeqToSet(toRemove)
          /\ wobj[w].reads # {}

-----------------------------------------------------------------------------
(* C9 (SpecTree). Container replacement as the claim states it: replacing a *)
(* nested container at a path adds to the pending set exactly the observers *)
(* subscribed under that path or under a path below it.                     *)
C9_Original ==
    ContainerReplaced =>
        Queued = { w \in Watchers : DependsUnder(w, lastOp.path) }

(* C9 amended. Replacing a nested container at a path adds to the pending   *)
(* set exactly the observers subscribed under that path; these include      *)
(* every observer that reads from the root of the store and is subscribed   *)
(* below the path; an observer subscribed only below the path (it reads     *)
(* through a reference taken earlier), only under a sibling path or only    *)
(* under the parent path is not added.                                      *)
C9_ContainerReplacement ==
    ContainerReplaced =>
        /\ Queued = SubscribersOf(lastOp.path)
        /\ \A w \in Watchers :
              (wobj[w].tracked # "detached" /\ Live(w) /\ DependsUnder(w, lastOp.path))
                  => w \in Queued
        /\ \A w \in Watchers : ~DependsUnder(w, lastOp.path) => w \notin Queued

\* data.a was replaced: the observer of a?.b?.c was invalidated, the one
\* reading c through the captured data.a.b and the one of n were not
C9_Witness ==
    /\ ContainerReplaced
    /\ lastOp.path = << Root1, Ka >>
    /\ \E w \in Queued : wobj[w].tracked = "full"
    /\ \E w \in DetachedWatchers : Live(w) /\ LeafPath \in SubscribedPaths(w) /\ w \notin Queued
    /\ \E w \in Watchers : wobj[w].tracked = "n" /\ Live(w) /\ w \notin Queued

-----------------------------------------------------------------------------
(* C10 (SpecDetached). Detached closures as the claim states it: once a     *)
(* container above the captured one has been replaced, a write to the leaf  *)
(* in the new subtree does not invalidate the observer that reads through   *)
(* the captured reference, and a run of that observer reads undefined.      *)
C10_Original ==
    \A w \in DetachedWatchers :
        AncestorReplaced(Captured(w)) =>
            /\ (InvalidatingWrite /\ lastOp.path = LeafPath) => w \notin Queued
            /\ (lastOp.op = "flush" /\ FlushRan(w)) => uvars.detached = Undef

(* C10 amended. The replacement of a container does not invalidate an       *)
(* observer that is subscribed only under the leaf path; the observer stays *)
(* subscribed under that path, so a later write that changes the leaf, also *)
(* in the subtree that replaced the old one, invalidates it; and every run  *)
(* of it by a flush reads, through the captured reference, the value that   *)
(* the live tree holds at the path, because the read is resolved again from *)
(* the root when any container above the captured one carries the marker.   *)
C10_DetachedResolved ==
    \A w \in DetachedWatchers :
        /\ (ContainerReplaced /\ SubscribedPaths(w) = {LeafPath}) => w \notin Queued
        /\ (InvalidatingWrite /\ lastOp.path = LeafPath) => w \in Queued
        /\ (lastOp.op = "flush" /\ FlushRan(w)) => uvars.detached = LiveLeaf

\* data.a was replaced, the leaf of the new subtree was written and the
\* observer read the new value through the reference to the old data.a.b
C10_Witness ==
    /\ lastOp.op = "flush"
    /\ \E w \in DetachedWatchers :
          /\ AncestorReplaced(Captured(w))
          /\ FlushRan(w)
          /\ uvars.detached = LiveLeaf
          /\ uvars.detached.t = "num"
          /\ objs[Captured(w)].f[Kc] # uvars.detached

-----------------------------------------------------------------------------
(* Vocabulary of the properties about captured references *)

\* what the live tree holds at a.b
LiveContainer == RawWalk(Root1, << Ka, Kb >>)

\* the tree holds another container, or none, where the container o was
Stale(o) == ~(IsRef(LiveContainer) /\ LiveContainer.v = o)

\* every segment of a.b.c exists in the live tree
PathExists == IsRef(LiveContainer) /\ HasOwn(Cur, LiveContainer.v, Kc)

\* the last handler ran watcher w: a flush, or run() called on the handle
RanNow(w) ==
    \/ lastOp.op = "run" /\ lastOp.w = w
    \/ lastOp.op = "flush" /\ FlushRan(w)

-----------------------------------------------------------------------------
(* C11 (SpecStale). Stale references read the live value: when the tree no  *)
(* longer holds the captured container at a.b and every segment of a.b.c    *)
(* exists, a run of the observer reads, through the captured reference, the *)
(* value the live tree holds at a.b.c; and after a write that changes the   *)
(* value at a.b.c an observer whose last run read through the stale         *)
(* reference is pending.                                                    *)
C11_StaleReadsLive ==
    \A w \in DetachedWatchers :
        (Stale(Captured(w)) /\ PathExists) =>
            /\ RanNow(w) => (~lastOp.thrown /\ uvars.detached = LiveLeaf)
            /\ (InvalidatingWrite /\ lastOp.path = LeafPath /\ wobj[w].viaStale /\ Live(w))
                   => w \in SeqToSet(flushQueue)

-----------------------------------------------------------------------------
(* C12 (SpecStale). Unresolvable detached path: when a segment of a.b.c is  *)
(* missing in the live tree, a run of the observer that reads through the   *)
(* captured reference throws nothing, completes, and reads undefined.       *)
C12_Unresolvable ==
    \A w \in DetachedWatchers :
        (RanNow(w) /\ ~PathExists) => (~lastOp.thrown /\ uvars.detached = Undef)

-----------------------------------------------------------------------------
(* C13 (SpecLoop). Runaway guard: a flush runs no observer more than        *)
(* RunCeiling times; the observer that invalidates itself on every run is   *)
(* run RunCeiling times, then skipped with a warning; the flush ends with   *)
(* an empty pending set; and every observer that was pending when the flush *)
(* began has been run by it.                                                *)
Warned(w) == \E i \in DOMAIN log : log[i].e = "warn" /\ log[i].w = w

LoopWatchers == { w \in Watchers : wobj[w].tracked = "loop" }

C13_RunawayGuard ==
    lastOp.op = "flush" =>
        /\ \A w \in Watchers : TimesFlushRan(w) <= RunCeiling
        /\ \A w \in LoopWatchers \cap Pending0 :
              Warned(w) /\ TimesFlushRan(w) = RunCeiling
        /\ \A w \in Watchers \ LoopWatchers : ~Warned(w)
        /\ flushQueue = << >>
        /\ \A w \in Pending0 : Live(w) => FlushRan(w)

\* a flush ran the self-invalidating observer up to the ceiling and ran a
\* reader that was pending behind it
C13_Witness ==
    /\ lastOp.op = "flush"
    /\ \E w \in LoopWatchers : Warned(w) /\ TimesFlushRan(w) = RunCeiling
    /\ \E w \in Pending0 \ LoopWatchers :
          /\ TimesFlushRan(w) = 1
          /\ IndexIn(lastOp.queue0, w) > 1

-----------------------------------------------------------------------------
(* C14 (SpecFail). Cursor save/restore on every exit: after a handler that  *)
(* ran observers, whether their callbacks returned or threw, no observer is *)
(* marked active (the cursor has the value it had before the run); and an   *)
(* exception thrown by a callback reaches the caller of run().              *)
FailWatchers == { w \in Watchers : wobj[w].tracked = "fail" }

C14_CursorRestored ==
    /\ activeWatcher = 0
    /\ \A w \in FailWatchers :
          (RanNow(w) /\ lastOp.op = "run" /\ GreaterThan(RawGet(Cur, Root1, Kb), 0))
              => lastOp.thrown

-----------------------------------------------------------------------------
(* C15 (SpecList). One flush per quiescent period: at most one flush        *)
(* microtask is queued at a time, and one is queued whenever the pending    *)
(* set is not empty.                                                        *)
C15_OneFlushPerPeriod ==
    /\ microtasks <= 1
    /\ flushQueue # << >> => microtasks = 1

-----------------------------------------------------------------------------
(* C16 (SpecTrack). Track-only pattern: the observer is subscribed only     *)
(* under the paths its tracked callback reads, a write to the path that     *)
(* only the untracked callback reads does not invalidate it, every run of   *)
(* the tracked callback is followed at once by one call of the untracked    *)
(* callback and every such call follows a run, and the untracked callback   *)
(* receives what the tracked callback returned.                             *)
TrackWatchers == { w \in Watchers : wobj[w].tracked = "pair" }

IsEvent(i, e, w) == i \in DOMAIN log /\ log[i].e = e /\ log[i].w = w

C16_TrackOnly ==
    \A w \in TrackWatchers :
        /\ SubscribedPaths(w) = { << Root1, Ka >>, << Root1, Kb >> }
        /\ (InvalidatingWrite /\ lastOp.path = << Root1, Kc >>) => w \notin Queued
        /\ \A i \in DOMAIN log :
              /\ IsEvent(i, "run", w) => IsEvent(i + 1, "untracked", w)
              /\ IsEvent(i, "untracked", w) => IsEvent(i - 1, "run", w)
        /\ Ran(w) => uvars.seen = Pair(RawGet(Cur, Root1, Ka), RawGet(Cur, Root1, Kb))

\* data.c was written and changed, the observer whose untracked callback read
\* data.c is not pending
C16_Witness ==
    /\ InvalidatingWrite
    /\ lastOp.path = << Root1, Kc >>
    /\ flushQueue = << >>
    /\ \E w \in TrackWatchers : uvars.seen.t = "list" /\ uvars.seen.first = Num(1)

-----------------------------------------------------------------------------
(* C17 (SpecNest). Registration runs once, synchronously: when watch        *)
(* returns, the new observer and every observer registered inside its run   *)
(* is in the registry and its tracked callback has run exactly once; when   *)
(* the registration read the computed property for the first time, the      *)
(* deriving function was invoked exactly once, by the caching observer, and *)
(* no observer made by the registration is pending for another run.         *)
MadeNow == IF lastOp.op = "watch" THEN lastOp.w..Len(wobj) ELSE {}

TimesRan(w) == Cardinality({ i \in DOMAIN log : log[i].e = "run" /\ log[i].w = w })

TimesDerived == Cardinality({ i \in DOMAIN log : log[i].e = "get" })

-----------------------------------------------------------------------------
(* C18 (SpecDelete). Delete semantics: a delete of the property at a path   *)
(* adds to the pending set exactly the observers that were subscribed to    *)
(* that path, whatever the value was and also when there was none; after it *)
(* the subscriber map of the store has lost the entry of that path and the  *)
(* entries of the paths nested under it, and every other entry, also of a   *)
(* path that begins with the same characters, is as it was.                 *)
Nested(path, p) == path = p \/ StartsWith(path, p \o << pathSeparator >>)

SubsBefore == lastOp.subs0[lastOp.path[1]]

SubsAfter == Subscribers[lastOp.path[1]]

C18_DeleteSemantics ==
    lastOp.op = "delete" =>
        /\ Queued = (IF lastOp.path[2] \in DOMAIN SubsBefore
                     THEN SeqToSet(SubsBefore[lastOp.path[2]]) ELSE {})
        /\ Queued \subseteq SeqToSet(flushQueue)
        /\ DOMAIN SubsAfter = { q \in DOMAIN SubsBefore : ~Nested(q, lastOp.path[2]) }
        /\ \A q \in DOMAIN SubsAfter : SubsAfter[q] = SubsBefore[q]

\* delete data.a with observers under a, a.b, a.b.c and ab: the first three
\* entries are gone, the entry of ab is kept
C18_Witness ==
    /\ lastOp.op = "delete"
    /\ lastOp.path = << Root1, Ka >>
    /\ { Ka, Join(<< Ka, Kb >>), Join(<< Ka, Kb, Kc >>), Kab } \subseteq DOMAIN SubsBefore
    /\ \A q \in DOMAIN SubsBefore : SubsBefore[q] # << >>
    /\ DOMAIN SubsAfter = { Kab }
    /\ Queued # {}

\* delete of a property that is not there, with an observer subscribed to it
C18_WitnessAbsent ==
    /\ lastOp.op = "delete"
    /\ lastOp.old = Undef
    /\ Queued # {}

-----------------------------------------------------------------------------
(* C19 (SpecTimer). Debounced, coalesced teardown: a release arms the timer *)
(* anew; the removal pass runs only when the delay has passed since the     *)
(* last release; while a released observer is still registered it is in     *)
(* the removal list and the timer is armed; after the pass the removal list *)
(* is empty, the timer is off and no released observer is registered.       *)
C19_DebouncedTeardown ==
    /\ lastOp.op = "unwatch" => (cleanTimeoutId /\ clock.timer = 0)
    /\ toRemove # << >> => cleanTimeoutId
    /\ \A w \in Watchers :
          (wobj[w].unwatched /\ w \in allWatchers) => w \in SeqToSet(toRemove)
    /\ lastOp.op = "timer" =>
          /\ clock.idle >= CleanDelay
          /\ toRemove = << >>
          /\ ~cleanTimeoutId
          /\ \A w \in Watchers : wobj[w].unwatched => w \notin allWatchers

\* one pass removed two observers: the timer had run for the delay, armed by
\* the second release
C19_Witness ==
    /\ lastOp.op = "timer"
    /\ clock.idle = CleanDelay
    /\ Len(lastOp.remove0) = 2
    /\ lastOp.remove0[1] # lastOp.remove0[2]
    /\ SeqToSet(lastOp.remove0) \cap allWatchers = {}

-----------------------------------------------------------------------------
(* C20 (SpecTimer). Removal completeness: once the removal pass has         *)
(* processed the release of an observer, that observer and every observer   *)
(* created inside its runs or the runs of its descendants is absent from    *)
(* the registry and is a member of no subscriber set, and the property      *)
(* whose caching observer it was has no caching observer any more.          *)
InSomeSet(w) == \E i \in DOMAIN subsSets : w \in SeqToSet(subsSets[i])

HookInvoked(w) ==
    wobj[w].onRemove = NoHook \/ objs[wobj[w].onRemove[1]].getW[wobj[w].onRemove[2]] # w

C20_RemovalComplete ==
    \A w \in Watchers :
        Gone(w) => (w \notin allWatchers /\ ~InSomeSet(w) /\ HookInvoked(w))

\* the pass removed a released parent and with it a child that was not
\* released and was subscribed
C20_Witness ==
    /\ lastOp.op = "timer"
    /\ \E r \in SeqToSet(lastOp.remove0), w \in Watchers :
          /\ IsDescendant(w, r)
          /\ ~wobj[w].unwatched
          /\ wobj[w].reads # {}
          /\ w \notin allWatchers
          /\ ~InSomeSet(w)

-----------------------------------------------------------------------------
(* C21 (Spec). Child-only invalidation: a write that changes a path makes   *)
(* pending every live observer that read it and no ancestor of such an      *)
(* observer that did not read it itself; a flush that starts with a live    *)
(* child pending and none of its ancestors pending runs the child exactly   *)
(* once and runs none of its ancestors.                                     *)
Ancestors(c) == { anc \in Watchers : IsDescendant(c, anc) }

C21_ChildOnly ==
    /\ InvalidatingWrite =>
          \A c \in Watchers :
              (Live(c) /\ lastOp.path \in wobj[c].reads) =>
                  /\ c \in Queued
                  /\ \A anc \in Ancestors(c) : lastOp.path \notin wobj[anc].reads => anc \notin Queued
    /\ lastOp.op = "flush" =>
          \A c \in Pending0 :
              (Live(c) /\ Ancestors(c) # {} /\ Ancestors(c) \cap Pending0 = {}) =>
                  /\ TimesFlushRan(c) = 1
                  /\ \A anc \in Ancestors(c) : ~FlushRan(anc)

\* the flush after a second write to the path of the child: the child ran
\* once, its parent is live and did not run
C21_Witness ==
    /\ lastOp.op = "flush"
    /\ lastOp.batch = 2
    /\ \E c \in Pending0 :
          /\ Live(c)
          /\ Ancestors(c) # {}
          /\ \A anc \in Ancestors(c) : Live(anc) /\ ~FlushRan(anc)
          /\ TimesFlushRan(c) = 1

-----------------------------------------------------------------------------
(* C22 (SpecRead). A computed property read outside any active observer:    *)
(* the read invokes the deriving function once and returns what it derives  *)
(* from the fields as they are; it leaves the containers (no shadow key),   *)
(* the observers, the registry, the subscriber map and the pending set as   *)
(* they were.                                                               *)
DirectRead == lastOp.op = "read" /\ lastOp.path = << Root1, KisValid >>

C22_DirectRead ==
    [][DirectRead' =>
          /\ TimesDerived' = 1
          /\ lastOp'.val = Derived'
          /\ objs' = objs
          /\ wobj' = wobj
          /\ allWatchers' = allWatchers
          /\ pathWatcherIds' = pathWatcherIds
          /\ subsSets' = subsSets
          /\ flushQueue' = flushQueue
          /\ microtasks' = microtasks]_vars

\* a read before any observer read the getter: the value is derived from a
\* field that was written, and there is no shadow key and no caching observer
C22_Witness ==
    /\ DirectRead
    /\ lastOp.val = Bool(TRUE)
    /\ GetWatcher = 0
    /\ ~HasOwn(Cur, Root1, ShadowKey(KisValid))
    /\ subsSets = << >>

\* a read between a write and its flush: the value read is fresh, the cached
\* one is not
C22_WitnessFresh ==
    /\ DirectRead
    /\ GetWatcher # 0
    /\ lastOp.val # Cached

-----------------------------------------------------------------------------
(* C23 (SpecWrap). Lazy wrapping as the claim states it: a read of a        *)
(* property that holds a plain container returns a wrapped container and    *)
(* leaves it stored at the property; a read of a property that holds a      *)
(* wrapped container, a primitive, a function or an object that is not      *)
(* plain returns the stored value as it is and changes no container.        *)
ReadsKey(k) == lastOp.op = "read" /\ lastOp.path = << Root1, k >>

WrapKeys == {Ka, Kb, Kc, Kn, Kval, Kcount}

C23_Original ==
    [][\A k \in WrapKeys : ReadsKey(k)' =>
          IF objs[Root1].f[k].t = "obj"
          THEN /\ lastOp'.val = Proxy(objs[Root1].f[k].v)
               /\ objs'[Root1].f[k] = lastOp'.val
          ELSE /\ lastOp'.val = objs[Root1].f[k]
               /\ objs' = objs]_vars

(* C23 amended. A read of a property that holds a plain container without   *)
(* a parent link wraps it, records the property as its parent link and      *)
(* stores the wrapped container at the property; a plain container that     *)
(* carries a parent link already (the same object is held by a property     *)
(* that was read before) is returned as it is, not wrapped; so is a wrapped *)
(* container, a primitive, a function and an object that is not plain, and  *)
(* these reads change no container.                                         *)
C23_LazyWrapping ==
    [][\A k \in WrapKeys : ReadsKey(k)' =>
          IF objs[Root1].f[k].t = "obj" /\ objs[objs[Root1].f[k].v].parent = NoParent
          THEN /\ lastOp'.val = Proxy(objs[Root1].f[k].v)
               /\ objs'[Root1].f[k] = lastOp'.val
               /\ objs'[lastOp'.val.v].parent = << Root1, k >>
          ELSE /\ lastOp'.val = objs[Root1].f[k]
               /\ objs' = objs]_vars

\* a read wrapped the container of a property, and the wrapped container is
\* what the property holds now
C23_Witness ==
    /\ \E k \in WrapKeys : ReadsKey(k)
    /\ lastOp.old.t = "obj"
    /\ lastOp.val = Proxy(lastOp.old.v)
    /\ objs[Root1].f[lastOp.path[2]] = lastOp.val

\* a read of b after a read of a: the object is returned as it is
C23_WitnessShared ==
    /\ ReadsKey(Kb)
    /\ lastOp.val.t = "obj"
    /\ objs[lastOp.val.v].parent = << Root1, Ka >>

-----------------------------------------------------------------------------
(* Moved items *)

ShiftOps == {"unshift", "shift", "splice", "assign", "copy"}

\* the array data.a
Items == objs[Root1].f[Ka].v

\* the indexes of data.a at which the wrapped item e is stored
HeldAt(e) == { k \in DOMAIN objs[Items].f : IsIndexKey(k) /\ objs[Items].f[k] = Proxy(e) }

\* the paths data.a[i].c
ItemPaths == { << Root1, Join(<< Ka, IndexKey(i), Kc >>) >> : i \in 0..MaxLen }

\* the link of every wrapped item of the array names an index the item is
\* stored at, and a write of data.a[i].c that changes the value invalidates
\* exactly the watchers subscribed under a/i/c
CurrentIndex ==
    /\ lastOp.op \in ShiftOps =>
          \A e \in DOMAIN objs :
              HeldAt(e) # {} =>
                  /\ objs[e].parent # NoParent
                  /\ objs[e].parent[1] = Items
                  /\ objs[e].parent[2] \in HeldAt(e)
    /\ (InvalidatingWrite /\ lastOp.path \in ItemPaths) => Queued = SubscribersOf(lastOp.path)

\* C24 as stated: after unshift, shift, splice or any direct assignment of a
\* wrapped item to an index, the path of a property of a wrapped item uses
\* the index the item is stored at, and a write of it invalidates exactly the
\* watchers subscribed under that path
C24_Original == CurrentIndex

\* C24: the same, as long as no direct assignment has stored a wrapped item
\* at a second index
C24_CurrentIndex == "copy" \notin uvars.made => CurrentIndex

\* an item was moved by unshift and a watcher reads it at its new index when
\* its property is written
C24_Witness ==
    /\ "copy" \notin uvars.made
    /\ InvalidatingWrite
    /\ lastOp.path = << Root1, Join(<< Ka, IndexKey(1), Kc >>) >>
    /\ objs[Items].f[IndexKey(1)] = Proxy(3)
    /\ Queued # {}

-----------------------------------------------------------------------------
(* Registration of a watcher that reads the getter *)

\* watch() of the main program has registered a watcher whose tracked
\* callback has read data.isValid
RegisteredReader == lastOp.op = "watch" /\ << Root1, KisValid >> \in wobj[lastOp.w].reads

-----------------------------------------------------------------------------
(* The router *)

\* C26: the destroy function returned by a call of a route handler is
\* invoked at most once, and it has been invoked once when a later handler
\* has been called, whatever the order in which hash changes arrive and the
\* promises of destroy functions and handlers settle
C26_DestroyOnce ==
    \A i \in DOMAIN router.calls :
        /\ router.calls[i].destroyed <= 1
        /\ (ReturnsDestroy(router.calls[i].route) /\ i < Len(router.calls)) =>
              router.calls[i].destroyed = 1

\* a hashchange event is dispatched to onHashChange
Dispatch == router' # router /\ router'.last \in {"redirect", "warn", "navigate"}

\* the hash matches no route
Missing == findActiveRoute(router, router.hash) = "none"

NoHandlerCalled ==
    /\ router'.calls = router.calls
    /\ router'.navs = router.navs
    /\ router'.prevDestroy = router.prevDestroy

\* C27: when the hash matches no route and differs from the fallback path,
\* onHashChange sets the hash to the fallback path and calls no handler; when
\* the fallback path itself matches no route it only warns and the hash stays,
\* so that a redirect is never followed by another one
C27_Fallback ==
    [][Dispatch =>
          /\ (Missing /\ router.hash # fallbackPath) =>
                /\ router'.last = "redirect"
                /\ router'.hash = fallbackPath
                /\ router'.events = router.events
                /\ NoHandlerCalled
          /\ (Missing /\ router.hash = fallbackPath) =>
                /\ router'.last = "warn"
                /\ router'.hash = router.hash
                /\ router'.events = router.events - 1
                /\ NoHandlerCalled
          /\ ~Missing => router'.last = "navigate" /\ router'.hash = router.hash
          /\ router'.redirects <= 1]_vars

\* "#/x" was redirected to "#/", which has no route: the warning, no redirect
C27_Witness ==
    /\ router.last = "warn"
    /\ router.redirects = 1
    /\ router.hash = fallbackPath
    /\ router.events = 0

-----------------------------------------------------------------------------
(* Keyed children *)

\* the child of the last list that has the rid, NoNode when there is none
Previous(rid) ==
    IF \E j \in DOMAIN dom.oldChildren : dom.oldChildren[j].rid = rid
    THEN dom.oldChildren[CHOOSE j \in DOMAIN dom.oldChildren : dom.oldChildren[j].rid = rid]
    ELSE NoNode

\* C28: after a run of the children function the children of the element
\* before the end placeholder are, in order, the nodes of the new list, where
\* a node whose rid a previous child had is that previous child and every
\* other node is new; nothing follows the placeholder
C28_KeyedOrder ==
    [][dom'.renders = dom.renders + 1 =>
          /\ dom'.childNodes = Append(dom'.newChildren, endPlaceholder)
          /\ \A i \in DOMAIN dom'.newChildren :
                IF Previous(dom'.newChildren[i].rid) # NoNode
                THEN dom'.newChildren[i] = Previous(dom'.newChildren[i].rid)
                ELSE dom'.newChildren[i].gen = dom'.renders]_vars

\* the list 1 2 3 was rendered and then 2 3 1 (low to high) or 3 1 2 (high
\* to low), with the three nodes reused
C28_Witness ==
    /\ dom.renders = 2
    /\ Len(dom.newChildren) = 3
    /\ \A i \in 1..3 : dom.newChildren[i].gen = 1
    /\ \/ << dom.newChildren[1].rid, dom.newChildren[2].rid, dom.newChildren[3].rid >> = << 2, 3, 1 >>
       \/ << dom.newChildren[1].rid, dom.newChildren[2].rid, dom.newChildren[3].rid >> = << 3, 1, 2 >>
    /\ dom.childNodes = Append(dom.newChildren, endPlaceholder)

-----------------------------------------------------------------------------
(* The watchers of an element *)

\* the watchers that were not released
Kept == { w \in Watchers : ~wobj[w].unwatched }

Registered == SeqToSet(dom.registeredWatchers)

\* the callbacks the last handler ran
RanInStep == { log[i].w : i \in { j \in DOMAIN log : log[j].e = "run" } }

\* C29: a reactive function of an element runs only while the element is
\* mounted, as a watcher the mount registered; a mount of an unmounted
\* element registers one watcher per function and runs each once, a mount
\* notification while mounted changes nothing; an unmount releases every
\* registered watcher, and once the removal timer has fired no released
\* watcher is subscribed, so that a later write queues and runs nothing
C29_MountedOnly ==
    /\ dom.mounts = 0 => Len(wobj) = 0
    /\ RanInStep # {} => dom.isMounted /\ RanInStep \subseteq Registered
    /\ IF dom.isMounted
       THEN /\ Len(dom.registeredWatchers) = Len(watchFuncs)
            /\ \A i \in DOMAIN watchFuncs : wobj[dom.registeredWatchers[i]].tracked = watchFuncs[i]
            /\ Kept = Registered
       ELSE dom.registeredWatchers = << >> /\ Kept = {}
    /\ lastOp.op = "mount" =>
          IF lastOp.old = Bool(TRUE)
          THEN log = << >> /\ Len(wobj) < lastOp.w
          ELSE /\ Registered = lastOp.w..Len(wobj)
               /\ \A w \in Registered : TimesRan(w) = 1
    /\ lastOp.op = "unmount" => RanInStep = {} /\ ~dom.isMounted
    /\ (~dom.isMounted /\ ~cleanTimeoutId) =>
          /\ allWatchers = {}
          /\ \A i \in DOMAIN subsSets : subsSets[i] = << >>
          /\ lastOp.op = "write" => lastOp.queued = << >>

\* the element was mounted, unmounted, the removal timer fired, and then a
\* property that a reactive function had read was written to a new value
C29_Witness ==
    /\ ~dom.isMounted
    /\ dom.mounts > 0
    /\ ~cleanTimeoutId
    /\ \A w \in Watchers : wobj[w].expired
    /\ Len(wobj) >= Len(watchFuncs)
    /\ InvalidatingWrite
    /\ lastOp.path = << Root1, Ka >>

\* a mount notification arrived while the element was mounted
C29_WitnessRepeated ==
    /\ lastOp.op = "mount"
    /\ lastOp.old = Bool(TRUE)
    /\ dom.isMounted
    /\ dom.mounts = 2

-----------------------------------------------------------------------------
(* Nested runs *)

\* the properties of the store under which watcher w is subscribed
PathsOf(w) == { k \in {Ka, Kb, Kc} : w \in SubscribersOf(<< Root1, k >>) }

\* C30: a watcher created and run inside the run of a watcher is subscribed
\* under what its own callback read and nothing else, the outer watcher is
\* subscribed under what its callback read before and after the nested run
\* and not under the reads of the inner callback, the inner watcher has the
\* outer one as its parent and is in the list of children of the outer one,
\* and no watcher is current when the handler has returned
C30_NestedAttribution ==
    /\ activeWatcher = 0
    /\ \A w \in Watchers :
          Live(w) =>
              /\ wobj[w].tracked = "around" =>
                    /\ PathsOf(w) = {Ka, Kc}
                    /\ wobj[w].parent = 0
                    /\ \E c \in Watchers : Live(c) /\ wobj[c].tracked = "inner"
              /\ wobj[w].tracked = "inner" =>
                    /\ PathsOf(w) = {Kb}
                    /\ wobj[w].parent # 0
                    /\ wobj[wobj[w].parent].tracked = "around"
                    /\ w \in SeqToSet(wobj[wobj[w].parent].children)

\* the outer watcher ran in a flush and created its second inner watcher,
\* which is subscribed under b while the outer one is subscribed under a, c
C30_Witness ==
    /\ lastOp.op = "flush"
    /\ \E p, c \in Watchers :
          /\ Live(p) /\ Live(c)
          /\ wobj[p].tracked = "around"
          /\ TimesRan(p) = 1
          /\ wobj[c].tracked = "inner"
          /\ wobj[c].parent = p
          /\ Len(wobj[p].children) = 2
          /\ PathsOf(p) = {Ka, Kc}
          /\ PathsOf(c) = {Kb}

-----------------------------------------------------------------------------
(* The caching watcher of a getter *)

\* the registered watchers that cache the getter prop of container o
CachingOf(o, prop) ==
    { w \in allWatchers :
        /\ wobj[w].untracked = "cache"
        /\ wobj[w].env.obj = o
        /\ wobj[w].env.prop = ShadowKey(prop) }

\* the watchers of the user program whose last run read the getter
GetterReaders ==
    { w \in Watchers : wobj[w].untracked # "cache" /\ << Root1, KisValid >> \in wobj[w].reads }

\* C31: for every getter of every container at most one caching watcher is
\* registered, and it is the one the descriptor of the getter records
C31_SingleCaching ==
    \A o \in DOMAIN objs :
        \A prop \in DOMAIN objs[o].getters :
            /\ Cardinality(CachingOf(o, prop)) <= 1
            /\ CachingOf(o, prop) \subseteq {objs[o].getW[prop]}

\* two watchers of the user program read the getter, one of them ran again
\* in a flush, and one caching watcher is registered
C31_Witness ==
    /\ lastOp.op = "flush"
    /\ Cardinality(GetterReaders) = 2
    /\ \E w \in GetterReaders : FlushRan(w)
    /\ Cardinality(CachingOf(Root1, KisValid)) = 1

\* the watchers made by the user program
UserWatchers == { w \in Watchers : wobj[w].untracked # "cache" }

\* a caching watcher was made for a reader of the getter, every watcher of
\* the user program has been released and removed, and nothing that could
\* still remove a watcher is left: the removal timer is not armed, no id
\* awaits removal and no microtask is queued
ReadersGone ==
    /\ \E w \in Watchers : wobj[w].untracked = "cache"
    /\ UserWatchers # {}
    /\ \A w \in UserWatchers : wobj[w].expired /\ w \notin allWatchers
    /\ ~cleanTimeoutId
    /\ toRemove = << >>
    /\ microtasks = 0

\* C32: once every watcher of the user program that read the getter has
\* been released and removed and the removal timer has done its work, the
\* caching watcher of the getter is not registered any more
C32_CachingRemoved == ReadersGone => CachingOf(Root1, KisValid) = {}

\* a caching watcher that is registered stays registered, whatever happens
CachingStays == [][CachingOf(Root1, KisValid) \subseteq CachingOf(Root1, KisValid)']_vars

\* the readers are gone, a write of val was flushed, and the getter was
\* derived again by the caching watcher
DerivedForNobody ==
    /\ ReadersGone
    /\ lastOp.op = "flush"
    /\ TimesDerived > 0

-----------------------------------------------------------------------------
(* Invalidations made during a flush *)

\* the registered, unreleased watchers that record data.b
Children == { w \in Watchers : Live(w) /\ wobj[w].tracked = "child" }

\* C33: when a flush has completed and the pending set is empty, a
\* registered, unreleased watcher has run after the last write that changed
\* a property it is subscribed under: what the child recorded for data.b is
\* what data.b holds
C33_NoLostInvalidation ==
    (lastOp.op = "flush" /\ ~lastOp.thrown /\ flushQueue = << >> /\ Children # {}) =>
        uvars.seen = RawGet(Cur, Root1, Kb)

\* a flush in which the relay changed data.b while the parent was not
\* pending: the child was invalidated during the flush and ran in it
RanInSameFlush ==
    /\ lastOp.op = "flush"
    /\ \E w \in Children : FlushRan(w) /\ w \in Queued
    /\ \A w \in Watchers : wobj[w].tracked = "parent" => w \notin Pending0
    /\ uvars.seen = RawGet(Cur, Root1, Kb)

-----------------------------------------------------------------------------
(* The scheduler after an exception *)

\* a callback threw in an earlier flush (the cursor was left set), and
\* a write of the main program has now invalidated the registered,
\* unreleased watcher w
InvalidatedLater(w) ==
    /\ activeWatcher # 0
    /\ lastOp.op = "write"
    /\ w \in Watchers
    /\ Live(w)
    /\ w \in Queued

\* C34: after a callback threw during a flush, a write that invalidates a
\* registered, unreleased watcher leaves a microtask queued, the flush that
\* will run the watcher
C34_FlushLiveness ==
    \A w \in 1..MaxWatchers : InvalidatedLater(w) => microtasks > 0

\* after an exception in a flush the pending set is not empty, no microtask
\* is queued, and a write has added a watcher to the pending set
StuckPending ==
    /\ \E w \in 1..MaxWatchers : InvalidatedLater(w)
    /\ Len(flushQueue) > 1
    /\ microtasks = 0

\* with two or more watchers pending and no microtask queued, no handler
\* queues a microtask or empties the pending set
StuckForever ==
    [][(Len(flushQueue) > 1 /\ microtasks = 0) =>
          (flushQueue' # << >> /\ microtasks' = 0)]_vars

-----------------------------------------------------------------------------
(* The two records of a subscription *)

\* the subscriber Sets that hold watcher w
SetsHolding(w) == { i \in DOMAIN subsSets : w \in SeqToSet(subsSets[i]) }

\* the last handler ran the callback of w
RanCallback(w) == \E i \in DOMAIN log : log[i].e = "run" /\ log[i].w = w

\* C35: every subscriber Set that holds a watcher is recorded in the
\* watcher's own set of Sets; so a run leaves the watcher subscribed under
\* what the run read and nothing else, and a removed watcher is in no Set
C35_TwoWay ==
    \A w \in Watchers :
        /\ SetsHolding(w) \subseteq wobj[w].pathsSubs
        /\ RanCallback(w) => SubscribedPaths(w) = wobj[w].reads
        /\ (wobj[w].expired /\ w \notin allWatchers) => SetsHolding(w) = {}

\* a flush ran the conditional watcher again: three Sets are recorded in
\* the watcher, it is held by two of them
C35_Witness ==
    /\ lastOp.op = "flush"
    /\ \E w \in Watchers :
          /\ FlushRan(w)
          /\ Cardinality(wobj[w].pathsSubs) = 3
          /\ Cardinality(SetsHolding(w)) = 2

\* the removal timer took a watcher that two Sets held out of both
C35_WitnessRemoved ==
    /\ lastOp.op = "timer"
    /\ \E w \in SeqToSet(lastOp.remove0) :
          /\ Cardinality(SetsHolding(w)) = 0
          /\ Cardinality(wobj[w].reads) = 2

-----------------------------------------------------------------------------
(* The tree of the watchers *)

\* the watchers reached from the set S over at most n lists of children
RECURSIVE Below(_, _)
Below(S, n) ==
    IF n = 0 THEN S
    ELSE Below(S \cup UNION { SeqToSet(wobj[x].children) : x \in S }, n - 1)

Descendants(w) == Below(SeqToSet(wobj[w].children), Len(wobj))

\* C36: no watcher is among its own descendants, and no watcher is the
\* parent of its parent
C36_Acyclic ==
    \A w \in Watchers :
        /\ w \notin Descendants(w)
        /\ wobj[w].parent # 0 => wobj[wobj[w].parent].parent # w

\* wB ran wA, and the links form a tree: wA is the child of wB
RanInside ==
    /\ lastOp.op = "flush"
    /\ \E p, c \in Watchers :
          /\ wobj[c].parent = p
          /\ c \in SeqToSet(wobj[p].children)
          /\ wobj[p].parent = 0
          /\ wobj[p].children # << >>
          /\ wobj[c].children = << >>
          /\ RanCallback(c)

-----------------------------------------------------------------------------
(* The children of a released watcher *)

\* c is registered and not released, its parent is released and not yet
\* removed, and c is pending
PendingOrphan(c) ==
    /\ c \in allWatchers
    /\ ~wobj[c].unwatched
    /\ wobj[c].parent # 0
    /\ wobj[c].parent \in allWatchers
    /\ wobj[wobj[c].parent].unwatched
    /\ c \in SeqToSet(flushQueue)

\* unwatch() sets the flag of the released watcher and of no other one
FlagsOne ==
    /\ wobj'[lastOp'.w].unwatched
    /\ \A w \in Watchers : w # lastOp'.w => wobj'[w].unwatched = wobj[w].unwatched

\* the flush ran c
RunsNext(c) == \E i \in DOMAIN log' : log'[i].e = "flush" /\ log'[i].w = c

\* C37: unwatch() flags the released watcher only, and while the removal
\* timer has not fired, a flush runs a pending watcher that was not
\* released itself although its parent was
C37_DescendantsRun ==
    [][/\ lastOp'.op = "unwatch" => FlagsOne
       /\ lastOp'.op = "flush" => \A c \in Watchers : PendingOrphan(c) => RunsNext(c)]_vars

\* the same when the released parent is not pending itself
RunsUnlessParentPending ==
    [][/\ lastOp'.op = "unwatch" => FlagsOne
       /\ lastOp'.op = "flush" =>
             \A c \in Watchers :
                 (PendingOrphan(c) /\ wobj[c].parent \notin SeqToSet(flushQueue)) => RunsNext(c)]_vars

\* a flush ran the child of a released parent before the timer fired
OrphanRan ==
    /\ lastOp.op = "flush"
    /\ cleanTimeoutId
    /\ \E c \in Watchers :
          /\ FlushRan(c)
          /\ wobj[c].parent # 0
          /\ wobj[wobj[c].parent].unwatched
          /\ ~wobj[c].unwatched

-----------------------------------------------------------------------------
(* The children of earlier runs *)

\* w is registered, not released, and subscribed under b only
KeptChild(w) ==
    /\ Live(w)
    /\ wobj[w].tracked = "inner"
    /\ SubscribedPaths(w) = { << Root1, Kb >> }

\* C38: as long as a parent is registered, every watcher made by one of its
\* runs is in its list of children, registered, not released and
\* subscribed under its path; a run of the parent adds a child to the list
\* and nothing is taken from it
C38_ChildrenKept ==
    \A p \in Watchers :
        (wobj[p].tracked = "leaky" /\ p \in allWatchers) =>
            /\ \A c \in SeqToSet(wobj[p].children) : KeptChild(c)
            /\ \A c \in Watchers : wobj[c].tracked = "inner" => c \in SeqToSet(wobj[p].children)
            /\ Len(wobj[p].children) = Cardinality(SeqToSet(wobj[p].children))

\* a flush ran the parent a second time: the children of its three runs are
\* in its list, registered and subscribed
C38_Witness ==
    /\ lastOp.op = "flush"
    /\ \E p \in Watchers :
          /\ wobj[p].tracked = "leaky"
          /\ FlushRan(p)
          /\ Len(wobj[p].children) = 3
          /\ \A c \in SeqToSet(wobj[p].children) : KeptChild(c)

\* the timer removed the parent and, with it, its children
C38_WitnessRemoved ==
    /\ lastOp.op = "timer"
    /\ allWatchers = {}
    /\ Len(wobj) >= 3

-----------------------------------------------------------------------------
(* The paths of the subscriptions *)

\* the paths of the properties that the program of the tree reads: a, a.b
\* and a.b.c, from the root or through a captured reference
TreePaths == { Join(SubSeq(<< Ka, Kb, Kc >>, 1, n)) : n \in 1..3 }

\* C39: every path under which a watcher is subscribed is the path from the
\* root to the property that was read; no watcher is subscribed under the
\* bare key c, the path of a property c of the root
C39_FullPaths ==
    \A st \in DOMAIN pathWatcherIds :
        \A q \in DOMAIN pathWatcherIds[st] :
            subsSets[pathWatcherIds[st][q]] # << >> => q \in TreePaths

\* a run read c through the captured reference while the live path is
\* there: the watcher is subscribed under a/b/c
ReadThroughStale ==
    /\ \E w \in Watchers :
          /\ wobj[w].tracked = "detached"
          /\ wobj[w].viaStale
          /\ RanCallback(w)
          /\ SubscribedPaths(w) = { << Root1, Join(<< Ka, Kb, Kc >>) >> }

\* a run read c through the captured reference while the live path is
\* missing: the watcher is subscribed under c
BareKey ==
    \E w \in Watchers :
        /\ wobj[w].tracked = "detached"
        /\ RanCallback(w)
        /\ << Root1, Kc >> \in SubscribedPaths(w)

-----------------------------------------------------------------------------
(* The program of the two stores with the same property: data = store({n:   *)
(* 0}) and other = store({n: 0}), a watcher of data.n, a watcher of other.n *)
(* and writes to both                                                       *)

InitTwin ==
    InitWith(<< [NewObj([k \in {Kn} |-> Num(0)], FALSE) EXCEPT !.store = Root1],
                [NewObj([k \in {Kn} |-> Num(0)], FALSE) EXCEPT !.store = Root2] >>)

WatchTwin == WatchStep({"n", "other"})
WriteTwin == WriteStep({ [root |-> st, keys |-> << Kn >>] : st \in {Root1, Root2} }, {"prim"}, Nums)

NextTwin ==
    \/ WatchTwin
    \/ WriteTwin
    \/ UnwatchStep
    \/ FlushStep
    \/ TimerStep

SpecTwin == InitTwin /\ [][NextTwin]_vars

\* the stores that the callback of w read
StoresRead(w) == { sp[1] : sp \in wobj[w].reads }

\* C40: a write to a path of one store adds to the pending set only watchers
\* that read that store, also when another store has a property with the
\* same path; one flush runs the live watchers that the writes to any of the
\* stores made pending
C40_PerStore ==
    /\ lastOp.op = "write" =>
          \A w \in Queued : lastOp.path[1] \in StoresRead(w)
    /\ lastOp.op = "flush" =>
          \A w \in Pending0 : Live(w) => FlushRan(w)

\* both watchers are subscribed under the path n, each in its own store, and
\* a write to one store made only its watcher pending
C40_Witness ==
    /\ InvalidatingWrite
    /\ \E w1, w2 \in Watchers :
          /\ Live(w1) /\ Live(w2)
          /\ SubscribedPaths(w1) = { << Root1, Kn >> }
          /\ SubscribedPaths(w2) = { << Root2, Kn >> }
          /\ Queued = { IF lastOp.path[1] = Root1 THEN w1 ELSE w2 }

\* one flush ran a watcher of each store
C40_WitnessShared ==
    /\ lastOp.op = "flush"
    /\ \E w1, w2 \in Watchers :
          /\ StoresRead(w1) = {Root1} /\ StoresRead(w2) = {Root2}
          /\ FlushRan(w1) /\ FlushRan(w2)

====
